---- MODULE Spec2Model ----
(***************************************************************************)
(* Split / merge orchestration of spike_psvae/before_deconv_merge_split.py *)
(* and, of spike_psvae/drifty_deconv_uhd.py, the spike train update of     *)
(* full_deconv_with_update and the template shifting of shift_deconv.      *)
(*                                                                         *)
(* Events are numbered 1..NEvents (numpy's 0..N-1 shifted by one).  A      *)
(* label array is a sequence of integers; None is written <<>> (every      *)
(* array of the model has NEvents >= 1 entries).  The statistical oracles  *)
(* that are not part of the two modules (HDBSCAN, LDA, PCA, isocut5, the   *)
(* template and residual computations) are nondeterministic choices over   *)
(* the values their callers can receive.  Under SpecDet the outcome of     *)
(* every split job is instead a function of a dataset fixed at the start,  *)
(* and only the order in which the workers finish is left open.            *)
(***************************************************************************)
EXTENDS Integers, Sequences, FiniteSets, TLC

\* ----------------------------------------------------------------- bounds
NEvents == 4            \* events of the dataset
MaxLabel == 1           \* split: input cluster ids are drawn from -1..MaxLabel
MaxUnits == 3           \* merge: input cluster ids are drawn from -1..MaxUnits-1
MaxSubLabel == 2        \* a density clustering returns ids -1..MaxSubLabel
MinSizeSplit == 2       \* min_size_split of herding / lda (25), scaled to NEvents
KsMinSizeSplit == 3     \* min_size_split of ks_bimodal_pursuit (50), scaled
MaxAmp == 2             \* a template's peak-to-peak amplitude is in 1..MaxAmp
MaxResid == 2           \* residuals are in 0..MaxResid; max_resid_dist (5) is MaxResid
MaxShift == 1           \* shifts are in -MaxShift..MaxShift
MinSpikes == 1          \* min_spikes of lda_diptest_merge (10), scaled
MaxSpikes == 2          \* max_spikes of lda_diptest_merge (250), scaled
MaxFeat == 1            \* a fixed dataset gives each event a feature in 0..MaxFeat
PursuitIters == 2       \* pursuit iterations of ks_bimodal_pursuit (50), scaled
Pfs == 2                \* deconv: pfs, samples per second (30000), scaled
TEnd == 2               \* deconv: T_END in seconds; T_START is 0
MaxPrior == 3           \* deconv: the clustering's spike train has 1..MaxPrior spikes
MaxChunk == 2           \* deconv: a window's deconvolution finds 0..MaxChunk spikes
MaxDeconvUnit == 1      \* deconv: unit ids are drawn from 0..MaxDeconvUnit
MaxPitch == 3           \* shift: the probe's pitch is 2..MaxPitch bins
MaxBin == 1             \* shift: a unit's occupied bins are among -MaxBin..MaxBin
MaxDisp == 2            \* shift: displacement values are in -MaxDisp..MaxDisp
MaxShiftUnits == 2      \* shift: 1..MaxShiftUnits units have superres templates

VARIABLES
    op,             \* which top-level function runs: "split", "merge", ...
    pc,             \* position of the orchestrating process
    err,            \* the exception that ended the run, "none" otherwise
    labels,         \* the caller's label array (argument `labels`)
    n_h5,           \* h5["spike_index"].shape[0]
    h5_ok,          \* the h5 asserts of lines 402-403 hold
    max_channels,   \* h5["spike_index"][:, 1]
    dataset,        \* the features the split tests load, when the run fixes them
    recursive_steps, \* split: argument `recursive_steps`, one flag per split step
    new_labels,     \* the working copy, <<>> before it is made
    pool,           \* "none", "open", "closed": the executor of the with block
    step,           \* index into split_steps / recursive_steps
    jobs,           \* the list `jobs` of futures of the current step
    cursor,         \* index of the future the for loop is at
    cur_max_label,  \* running maximum label
    nlabels_cur,    \* labels in use when the step started
    ret,            \* the returned value, <<>> before the return
    templates,      \* merge: argument `templates`, by its peak-to-peak amplitudes
    spike_times,    \* merge: h5["spike_index"][:, 0]
    recursive,      \* merge: argument `recursive`
    aligned_times,  \* merge: the adjusted timestamps, <<>> before the copy
    templates_dict, \* merge: live id -> template
    labels_to_process, \* merge: the worklist
    label,          \* merge: the id popped last
    proposals,      \* merge: candidates of `label`, closest first
    shifts,         \* merge: their shifts
    resids,         \* merge: calc_resid_matrix's residual per unit of the worklist
    all_shifts,     \* merge: calc_resid_matrix's shift per unit of the worklist
    in_unit_a,      \* lda_diptest_merge: argument in_unit_a, as a set of events
    in_unit_b,      \* lda_diptest_merge: argument in_unit_b, as a set of events
    no_coverage,    \* lda_diptest_merge: events whose projections hold a NaN
    is_merge,       \* lda_diptest_merge: the returned value, "none" before
    cand,           \* merge: position of the for loop in `proposals`
    spike_train,    \* full_deconv_with_update: the spike train, rows [t, unit, x]
    spt_chunk,      \* full_deconv_with_update: the deconvolved spikes of the window
    start_sec,      \* full_deconv_with_update: the loop variable, in seconds
    superres_label_to_bin_id,     \* shift_deconv: the bin id of each superres label
    superres_label_to_orig_label, \* shift_deconv: the unit of each superres label
    pitch,          \* shift_deconv: get_pitch(geom), in bins of bin_size_um
    unique_shifts,  \* shift_deconv: the displacement values, ascending
    shift_k,        \* shift_deconv: position of the comprehension in unique_shifts
    shifted_templates \* shift_deconv: one array of shifted templates per value

splitvars == <<n_h5, h5_ok, max_channels, dataset, recursive_steps, pool, step, jobs, cursor,
               cur_max_label, nlabels_cur>>

mergevars == <<templates, spike_times, recursive, aligned_times, templates_dict,
               labels_to_process, label, proposals, shifts, resids,
               all_shifts, cand>>

ldavars == <<in_unit_a, in_unit_b, no_coverage, is_merge>>

deconvvars == <<spike_train, spt_chunk, start_sec>>

shiftvars == <<superres_label_to_bin_id, superres_label_to_orig_label, pitch,
               unique_shifts, shift_k, shifted_templates>>

driftvars == <<deconvvars, shiftvars>>

vars == <<op, pc, err, labels, new_labels, ret, splitvars, mergevars, ldavars,
          driftvars>>

\* ---------------------------------------------------------------- helpers
Events == 1..NEvents

Range(s) == {s[k] : k \in DOMAIN s}

Max(S) == CHOOSE x \in S : \A y \in S : y <= x

RECURSIVE SortedSeq(_)
\* the ascending sequence of a finite set of integers (np.unique, np.setdiff1d,
\* np.flatnonzero all return ascending arrays)
SortedSeq(S) ==
    IF S = {} THEN <<>>
    ELSE LET m == CHOOSE x \in S : \A y \in S : x <= y
         IN <<m>> \o SortedSeq(S \ {m})

\* np.flatnonzero(arr == i)
Flatnonzero(arr, i) == SortedSeq({k \in DOMAIN arr : arr[k] = i})

\* np.setdiff1d(values, [-1]) for a set of values
Setdiff1dMinus1(S) == SortedSeq(S \ {-1})

\* np.unique(labels[labels >= 0])
UniqueNonneg(arr) == {arr[k] : k \in {j \in DOMAIN arr : arr[j] >= 0}}

\* mutant of Contig: the comparison only bounds the number of ids from above
ContigLoose(arr) == Max(Range(arr)) + 1 >= Cardinality(UniqueNonneg(arr))

\* labels.max() + 1 == np.unique(labels[labels >= 0]).size
Contig(arr) == Max(Range(arr)) + 1 = Cardinality(UniqueNonneg(arr))

\* only -1 and {0, ..., K'-1} for some K' >= 0
Compacted(arr) ==
    /\ \A k \in DOMAIN arr : arr[k] >= -1
    /\ \A v \in UniqueNonneg(arr) : \A w \in 0..v : w \in UniqueNonneg(arr)

\* ------------------------------------------------------------ split tests
\* A job's result is the tuple (is_split, unit_new_labels, in_unit) of the
\* split test; too_far records the events the test triaged for missing
\* channel coverage (np.isnan(unit_tpca_projs).any(...)), which the tuple
\* itself only carries as -1 entries of unit_new_labels.
NoResult ==
    [is_split |-> FALSE, unit_new_labels |-> <<>>, in_unit |-> <<>>,
     too_far |-> {}]

\* return False, None, None
Bail(tf) ==
    [is_split |-> FALSE, unit_new_labels |-> <<>>, in_unit |-> <<>>,
     too_far |-> tf]

\* return is_split, new_labels, in_unit
Verdict(is_split, unl, in_unit, tf) ==
    [is_split |-> is_split, unit_new_labels |-> unl, in_unit |-> in_unit,
     too_far |-> tf]

\* HDBSCAN(**kw).fit(X).labels_ over the positions P: noise is -1 and the
\* clusters found are numbered 0..k-1
ClusterLabelings(P) ==
    {h \in [P -> -1..MaxSubLabel] :
        \A p \in P : \A w \in 0..h[p] : \E q \in P : h[q] = w}

\* isocut5(lda_projs) -> (dipscore, cutpoint): the members above the cut point
\* when the dip score exceeds the threshold; the cut point lies between two
\* samples, so both sides of the binary partition are inhabited
IsocutUpper(P) == {U \in SUBSET P : U # {} /\ U # P}

\* new_labels = np.zeros(...); new_labels[too_far] = -1; new_labels[kept] = h
Triaged(n, tf, h) ==
    [p \in 1..n |-> IF p \in tf THEN -1 ELSE h[p]]

\* np.setdiff1d(np.unique(new_labels), [-1]).size
NumClusters(unl) == Cardinality(Range(unl) \ {-1})

EventsAt(in_unit, P) == {in_unit[p] : p \in P}

\* lines 102-130 of herding_split, for one outcome tf of the too_far mask
HerdingKept(in_unit, tf) ==
    LET n == Len(in_unit)
        kept == (1..n) \ tf
    IN  IF Cardinality(kept) < MinSizeSplit
        THEN {Bail(EventsAt(in_unit, tf))}
        ELSE {Verdict(NumClusters(Triaged(n, tf, h)) > 1, Triaged(n, tf, h),
                      in_unit, EventsAt(in_unit, tf)) :
                 h \in ClusterLabelings(kept)}

\* the results herding_split(in_unit) can return
herding_split(in_unit) ==
    IF Len(in_unit) < MinSizeSplit
    THEN {Bail({})}
    ELSE UNION {HerdingKept(in_unit, tf) : tf \in SUBSET (1..Len(in_unit))}

\* lines 173-207 of maxchan_lda_split, for one outcome tf of the too_far mask
LdaKept(in_unit, unit_max_chans, tf) ==
    LET n == Len(in_unit)
        kept == (1..n) \ tf
        n_max_chans == Cardinality({unit_max_chans[p] : p \in kept})
        n_lda_components == IF n_max_chans - 1 < 2 THEN n_max_chans - 1 ELSE 2
        tfe == EventsAt(in_unit, tf)
        zeros == [p \in 1..n |-> 0]
    IN  IF Cardinality(kept) < MinSizeSplit THEN {Bail(tfe)}
        ELSE IF n_max_chans <= 1 THEN {Bail(tfe)}
        ELSE IF n_lda_components = 1
        THEN {Verdict(FALSE, Triaged(n, tf, zeros), in_unit, tfe)}
             \cup {Verdict(TRUE,
                           Triaged(n, tf, [p \in 1..n |-> IF p \in U THEN 1 ELSE 0]),
                           in_unit, tfe) : U \in IsocutUpper(kept)}
        ELSE {Verdict(NumClusters(Triaged(n, tf, h)) > 1, Triaged(n, tf, h),
                      in_unit, tfe) : h \in ClusterLabelings(kept)}

\* the results maxchan_lda_split(in_unit) can return
maxchan_lda_split(in_unit) ==
    LET unit_max_chans == [p \in 1..Len(in_unit) |-> max_channels[in_unit[p]]]
    IN  IF Len(in_unit) < MinSizeSplit THEN {Bail({})}
        ELSE IF Cardinality(Range(unit_max_chans)) <= 1 THEN {Bail({})}
        ELSE UNION {LdaKept(in_unit, unit_max_chans, tf) :
                        tf \in SUBSET (1..Len(in_unit))}

\* mutant of ks_bimodal_pursuit_split: a split may leave every member on the
\* low side
ks_bimodal_pursuit_split_onesided(in_unit) ==
    LET n == Len(in_unit)
    IN  IF n < KsMinSizeSplit THEN {Bail({})}
        ELSE {Bail({})}
             \cup {Verdict(TRUE, [p \in 1..n |-> IF p \in hi THEN 1 ELSE 0],
                           in_unit, {}) :
                      hi \in {U \in SUBSET (1..n) : U # 1..n}}

\* mutant of ks_bimodal_pursuit_split: the early size guard is missing
ks_bimodal_pursuit_split_unguarded(in_unit) ==
    LET n == Len(in_unit)
    IN  {Bail({})}
        \cup {Verdict(TRUE, [p \in 1..n |-> IF p \in hi THEN 1 ELSE 0],
                      in_unit, {}) :
                 hi \in {U \in SUBSET (1..n) : U # {} /\ U # 1..n}}

\* the results ks_bimodal_pursuit_split(in_unit) can return: no triage; a
\* split needs min(ilow.mean(), (~ilow).mean()) > min_split_prop, so both
\* sides are inhabited; new_labels[~ilow] = 1
ks_bimodal_pursuit_split(in_unit) ==
    LET n == Len(in_unit)
    IN  IF n < KsMinSizeSplit THEN {Bail({})}
        ELSE {Bail({})}
             \cup {Verdict(TRUE, [p \in 1..n |-> IF p \in hi THEN 1 ELSE 0],
                           in_unit, {}) :
                      hi \in {U \in SUBSET (1..n) : U # {} /\ U # 1..n}}

\* split_steps, the default of split_clusters
split_steps ==
    <<"maxchan_lda_split", "herding_split", "ks_bimodal_pursuit_split">>

\* recursive_steps, the default of split_clusters
DefaultRecursiveSteps == <<FALSE, FALSE, TRUE>>

\* recursive_steps passed by a caller who wants every step recursive
AllRecursiveSteps == <<TRUE, TRUE, TRUE>>

\* split_step(in_unit) for the step at index s
SplitStep(s, in_unit) ==
    CASE split_steps[s] = "maxchan_lda_split" -> maxchan_lda_split(in_unit)
      [] split_steps[s] = "herding_split" -> herding_split(in_unit)
      [] OTHER -> ks_bimodal_pursuit_split(in_unit)

\* ------------------------------------------------------- split scheduler
\* how the pursuit loop of a job went: <<k, site>> is the iteration and the
\* check that broke out of it; NoPursuit for a job that did not enter the loop
NoPursuit == <<-1, "none">>

\* the loop ran its PursuitIters iterations without a collapse
NoCollapse == <<PursuitIters, "none">>

\* the breaks of lines 267-268 (variance, top of the iteration), 284-285
\* (responsibility mass) and 298-299 (variance, after the update).  The top
\* check can fire at k = 0 only: later it sees the variances that passed the
\* check of lines 298-299 in the iteration before.
CollapsePoints ==
    {<<0, "s_top">>}
    \cup {<<k, site>> : k \in 0..(PursuitIters - 1), site \in {"rs", "s_update"}}

\* lines 266-323: the pursuit loop that collapses at c (NoCollapse: never),
\* from iteration k on; rs_bound tells whether the local `rs` has been
\* assigned (line 279) when the loop is left
RECURSIVE PursuitLoop(_, _, _)
PursuitLoop(k, rs_bound, c) ==
    IF k >= PursuitIters THEN [rs_bound |-> rs_bound, k |-> k]
    ELSE IF c = <<k, "s_top">> THEN [rs_bound |-> rs_bound, k |-> k]
    ELSE IF c = <<k, "rs">> THEN [rs_bound |-> TRUE, k |-> k]
    ELSE IF c = <<k, "s_update">> THEN [rs_bound |-> TRUE, k |-> k]
    ELSE PursuitLoop(k + 1, TRUE, c)

\* line 326: ilow = rs[:, 0] > rs[:, 1] reads `rs`; UnboundLocalError when the
\* loop was left before line 279 ran
PursuitRaises(c) == c # NoPursuit /\ ~PursuitLoop(0, FALSE, c).rs_bound

\* pool.submit(split_step, in_unit): a future that is not done yet
Submit(in_unit) ==
    [in_unit |-> in_unit, state |-> "pending", result |-> NoResult,
     pursuit |-> NoPursuit]

\* mutant of CallerArray: new_labels is a second name of the caller's array
CallerArrayAliased(caller, working) == working

\* new_labels = labels.copy(); del labels: the caller's array after a write
\* that left the working array as `working`.  The copy has its own storage,
\* so the caller's array keeps its value.
CallerArray(caller, working) == caller

\* mutant of Offset: the entries that are 0 are offset as well
OffsetFromZero(unl, cml) ==
    [p \in DOMAIN unl |-> IF unl[p] >= 0 THEN unl[p] + cml ELSE unl[p]]

\* unit_new_labels[unit_new_labels > 0] += cur_max_label
Offset(unl, cml) ==
    [p \in DOMAIN unl |-> IF unl[p] > 0 THEN unl[p] + cml ELSE unl[p]]

\* lines 453-458: the negative and the positive entries are written back
RelabelSplit(nl, in_unit, unl) ==
    [e \in DOMAIN nl |->
        IF \E p \in DOMAIN in_unit : in_unit[p] = e /\ unl[p] # 0
        THEN unl[CHOOSE p \in DOMAIN in_unit : in_unit[p] = e]
        ELSE nl[e]]

\* lines 452-458
ApplySplit(nl, cml, r) ==
    RelabelSplit(nl, r.in_unit, Offset(r.unit_new_labels, cml))

\* mutant of ChildJobs: the members of the children are looked up in the
\* label array as it was before the parent's result was written
ChildJobsStale(nl, in_unit) ==
    LET ids == Setdiff1dMinus1({nl[in_unit[p]] : p \in DOMAIN in_unit})
    IN  [k \in 1..Len(ids) |-> Submit(Flatnonzero(new_labels, ids[k]))]

\* mutant of ChildJobs: -1 is resubmitted like an id
ChildJobsWithTriaged(nl, in_unit) ==
    LET ids == SortedSeq({nl[in_unit[p]] : p \in DOMAIN in_unit})
    IN  [k \in 1..Len(ids) |-> Submit(Flatnonzero(nl, ids[k]))]

\* mutant of UnitMax: the smallest label of the members is taken
UnitMin(nl, in_unit) ==
    CHOOSE m \in {nl[in_unit[p]] : p \in DOMAIN in_unit} :
        \A p \in DOMAIN in_unit : m <= nl[in_unit[p]]

\* mutant of UnitMax: the running maximum is not advanced
UnitMaxStale(nl, in_unit) == cur_max_label

\* new_labels[in_unit].max()
UnitMax(nl, in_unit) == Max({nl[in_unit[p]] : p \in DOMAIN in_unit})

\* lines 462-467: one job per id of np.setdiff1d(new_labels[in_unit], [-1])
ChildJobs(nl, in_unit) ==
    LET ids == Setdiff1dMinus1({nl[in_unit[p]] : p \in DOMAIN in_unit})
    IN  [k \in 1..Len(ids) |-> Submit(Flatnonzero(nl, ids[k]))]

\* mutant of StepJobs: -1 is not taken out of cur_labels_set
StepJobsWithTriaged(nl) ==
    LET cur_labels_set == SortedSeq(Range(nl))
    IN  [k \in 1..Len(cur_labels_set) |-> Submit(Flatnonzero(nl, cur_labels_set[k]))]

\* lines 433-436: one job per id of cur_labels_set
StepJobs(nl) ==
    LET cur_labels_set == Setdiff1dMinus1(Range(nl))
    IN  [k \in 1..Len(cur_labels_set) |-> Submit(Flatnonzero(nl, cur_labels_set[k]))]

\* the inputs of max_channels the model draws from: one channel for all
\* events, and three channels
MaxChannelInputs == {[e \in Events |-> 0], [e \in Events |-> e % 3]}

LabelArrays == [Events -> -1..MaxLabel]

\* full_deconv_with_update is not running
DeconvIdle ==
    /\ spike_train = <<>>
    /\ spt_chunk = <<>>
    /\ start_sec = 0

\* shift_deconv is not running
ShiftIdle ==
    /\ superres_label_to_bin_id = <<>>
    /\ superres_label_to_orig_label = <<>>
    /\ pitch = 0
    /\ unique_shifts = <<>>
    /\ shift_k = 0
    /\ shifted_templates = <<>>

\* nothing of drifty_deconv_uhd.py is running
DriftIdle == DeconvIdle /\ ShiftIdle

\* lda_diptest_merge is not being checked on its own
LdaIdle ==
    /\ in_unit_a = {}
    /\ in_unit_b = {}
    /\ no_coverage = {}
    /\ is_merge = "none"

\* the merge scheduler's state while split_clusters runs
MergeIdle ==
    /\ templates = <<>>
    /\ spike_times = <<>>
    /\ recursive = FALSE
    /\ aligned_times = <<>>
    /\ templates_dict = <<>>
    /\ labels_to_process = <<>>
    /\ label = -1
    /\ proposals = <<>>
    /\ shifts = <<>>
    /\ resids = <<>>
    /\ all_shifts = <<>>
    /\ cand = 0

\* the dataset of a run whose test outcomes are left open
FreeData ==
    [known |-> FALSE, feat |-> [e \in Events |-> 0], far |-> {}, fail_unit |-> {}]

\* datasets that fix every test outcome: a feature per event (what the
\* clusterers and the bimodality test see), the events without channel
\* coverage, and the member set on which a test raises ({}: none)
FixedData ==
    [known : {TRUE}, feat : [Events -> 0..MaxFeat], far : {{}, {1}},
     fail_unit : {{}, {NEvents}}]

SplitStart ==
    /\ op = "split"
    /\ pc = "entry"
    /\ err = "none"
    /\ labels \in LabelArrays
    /\ n_h5 \in {NEvents, NEvents + 1}
    /\ h5_ok \in BOOLEAN
    /\ max_channels \in MaxChannelInputs
    /\ new_labels = <<>>
    /\ pool = "none"
    /\ step = 0
    /\ jobs = <<>>
    /\ cursor = 0
    /\ cur_max_label = -1
    /\ nlabels_cur = 0
    /\ ret = <<>>
    /\ MergeIdle
    /\ LdaIdle
    /\ DriftIdle

SplitInit ==
    SplitStart /\ dataset = FreeData /\ recursive_steps = DefaultRecursiveSteps

DetInit ==
    SplitStart /\ dataset \in FixedData /\ recursive_steps = DefaultRecursiveSteps

\* split_clusters called with the default flags or with
\* recursive_steps=(True, True, True)
SplitRecInit ==
    /\ SplitStart
    /\ dataset = FreeData
    /\ recursive_steps \in {DefaultRecursiveSteps, AllRecursiveSteps}

\* members of in_unit a test on the fixed dataset finds too far from the
\* channels it needs; ks_bimodal_pursuit_split excludes none
DataTooFar(s, in_unit) ==
    IF split_steps[s] = "ks_bimodal_pursuit_split" THEN {}
    ELSE {p \in DOMAIN in_unit : in_unit[p] \in dataset.far}

\* the grouping the fixed dataset gives the kept members: those whose feature
\* is above the lowest kept feature against the rest
DataGroups(in_unit, kept) ==
    [p \in kept |->
        IF \E q \in kept : dataset.feat[in_unit[q]] < dataset.feat[in_unit[p]]
        THEN 1 ELSE 0]

\* what split_step returns for in_unit on the fixed dataset: the result of
\* the test that triages DataTooFar and groups by DataGroups; where the test
\* bails, its bail after that triage, or its bail before any triage
DataVerdict(s, in_unit) ==
    LET n == Len(in_unit)
        tf == DataTooFar(s, in_unit)
        tfe == EventsAt(in_unit, tf)
        unl == Triaged(n, tf, DataGroups(in_unit, (1..n) \ tf))
        all == SplitStep(s, in_unit)
        full == {r \in all : r.unit_new_labels = unl /\ r.too_far = tfe}
        late == {r \in all : r.unit_new_labels = <<>> /\ r.too_far = tfe}
        early == {r \in all : r.unit_new_labels = <<>>}
    IN  IF full # {} THEN full ELSE IF late # {} THEN late ELSE early

\* the test raises on in_unit
DataFails(in_unit) == Range(in_unit) = dataset.fail_unit

JobResults(s, in_unit) ==
    IF dataset.known THEN DataVerdict(s, in_unit) ELSE SplitStep(s, in_unit)

\* the ways the pursuit loop of the job can go: the loop is entered by
\* ks_bimodal_pursuit_split past its size guard (lines 227-228); a fixed
\* dataset is one without a collapse
PursuitExits(s, in_unit) ==
    IF split_steps[s] # "ks_bimodal_pursuit_split" \/ Len(in_unit) < KsMinSizeSplit
    THEN {NoPursuit}
    ELSE IF dataset.known THEN {NoCollapse}
    ELSE {NoCollapse} \cup CollapsePoints

\* lines 392-407: the entry checks, then the copy
SplitEntry ==
    /\ op = "split" /\ pc = "entry"
    /\ IF ~Contig(labels)
       THEN pc' = "raised" /\ err' = "ValueError_contig" /\ UNCHANGED new_labels
       ELSE IF Len(labels) # n_h5
       THEN pc' = "raised" /\ err' = "ValueError_shape" /\ UNCHANGED new_labels
       ELSE IF ~h5_ok
       THEN pc' = "raised" /\ err' = "AssertionError" /\ UNCHANGED new_labels
       ELSE pc' = "make_pool" /\ new_labels' = labels /\ UNCHANGED err
    /\ UNCHANGED <<op, labels, n_h5, h5_ok, max_channels, dataset, recursive_steps, pool, step, jobs,
                   cursor, cur_max_label, nlabels_cur, ret>>
    /\ UNCHANGED <<mergevars, ldavars, driftvars>>

\* lines 411-425: with Executor(...) as pool
OpenPool ==
    /\ op = "split" /\ pc = "make_pool"
    /\ pool' = "open"
    /\ step' = 1
    /\ pc' = "step_start"
    /\ UNCHANGED <<op, err, labels, n_h5, h5_ok, max_channels, dataset, recursive_steps, new_labels, jobs,
                   cursor, cur_max_label, nlabels_cur, ret>>
    /\ UNCHANGED <<mergevars, ldavars, driftvars>>

\* lines 428-436: np.setdiff1d(...).max() raises ValueError on an empty set
StartStep ==
    /\ op = "split" /\ pc = "step_start"
    /\ IF UniqueNonneg(new_labels) = {}
       THEN /\ pc' = "raised" /\ err' = "ValueError_empty_max"
            /\ pool' = "closed"
            /\ UNCHANGED <<jobs, cursor, cur_max_label, nlabels_cur>>
       ELSE /\ cur_max_label' = Max(UniqueNonneg(new_labels))
            /\ nlabels_cur' = Max(UniqueNonneg(new_labels)) + 1
            /\ jobs' = StepJobs(new_labels)
            /\ cursor' = 1
            /\ pc' = "collect"
            /\ UNCHANGED <<err, pool>>
    /\ UNCHANGED <<op, labels, n_h5, h5_ok, max_channels, dataset, recursive_steps, new_labels,
                   step, ret>>
    /\ UNCHANGED <<mergevars, ldavars, driftvars>>

\* mutant of WorkerRun: the worker writes its verdict into the label array
WorkerRunWrites(j) ==
    /\ op = "split" /\ pool = "open"
    /\ jobs[j].state = "pending"
    /\ dataset.known => ~DataFails(jobs[j].in_unit)
    /\ \E c \in PursuitExits(step, jobs[j].in_unit) :
          /\ ~PursuitRaises(c)
          /\ \E r \in JobResults(step, jobs[j].in_unit) :
                /\ jobs' = [jobs EXCEPT ![j] = [@ EXCEPT !.state = "done",
                                                         !.result = r,
                                                         !.pursuit = c]]
                /\ new_labels' = IF r.is_split
                                  THEN ApplySplit(new_labels, cur_max_label, r)
                                  ELSE new_labels
    /\ UNCHANGED <<op, pc, err, labels, n_h5, h5_ok, max_channels, dataset, recursive_steps,
                   pool, step, cursor, cur_max_label, nlabels_cur, ret>>
    /\ UNCHANGED <<mergevars, ldavars, driftvars>>

\* a worker process runs split_step on the job's member set and stores the
\* returned tuple in the job's future
WorkerRun(j) ==
    /\ op = "split" /\ pool = "open"
    /\ jobs[j].state = "pending"
    /\ dataset.known => ~DataFails(jobs[j].in_unit)
    /\ \E c \in PursuitExits(step, jobs[j].in_unit) :
          /\ ~PursuitRaises(c)
          /\ \E r \in JobResults(step, jobs[j].in_unit) :
                jobs' = [jobs EXCEPT ![j] = [@ EXCEPT !.state = "done",
                                                      !.result = r,
                                                      !.pursuit = c]]
    /\ UNCHANGED <<op, pc, err, labels, n_h5, h5_ok, max_channels, dataset, recursive_steps, new_labels,
                   pool, step, cursor, cur_max_label, nlabels_cur, ret>>
    /\ UNCHANGED <<mergevars, ldavars, driftvars>>

\* the split test raises in the worker: the exception is stored in the
\* future.  It raises in the calls it makes (pursuit NoPursuit) or at line
\* 326 after a pursuit loop that left `rs` unassigned.
WorkerFail(j) ==
    /\ op = "split" /\ pool = "open"
    /\ jobs[j].state = "pending"
    /\ dataset.known => DataFails(jobs[j].in_unit)
    /\ \E c \in {NoPursuit} \cup {x \in PursuitExits(step, jobs[j].in_unit) :
                                   PursuitRaises(x)} :
          jobs' = [jobs EXCEPT ![j] = [@ EXCEPT !.state = "failed",
                                                !.pursuit = c]]
    /\ UNCHANGED <<op, pc, err, labels, n_h5, h5_ok, max_channels, dataset, recursive_steps, new_labels,
                   pool, step, cursor, cur_max_label, nlabels_cur, ret>>
    /\ UNCHANGED <<mergevars, ldavars, driftvars>>

\* mutant of NextFuture: results are taken as the futures complete
NextFutureAsCompleted == {j \in DOMAIN jobs : jobs[j].state = "done"}

\* the future whose result the for loop takes: the one at its own position
NextFuture == {cursor}

\* the for loop is done with a future: its result is not read again
Consumed(job) ==
    [job EXCEPT !.state = "collected", !.result = NoResult, !.pursuit = NoPursuit]

\* mutant of Collect: the -1 entries of a verdict that did not split are
\* written to the label array
CollectAppliesTriage ==
    /\ op = "split" /\ pc = "collect" /\ cursor <= Len(jobs)
    /\ \E j \in NextFuture :
        /\ jobs[j].state = "done"
        /\ LET r == jobs[j].result
               nl == ApplySplit(new_labels, cur_max_label, r)
               rest == [jobs EXCEPT ![j] = Consumed(@)]
           IN  IF ~r.is_split
               THEN /\ jobs' = rest
                    /\ new_labels' = nl
                    /\ UNCHANGED cur_max_label
               ELSE /\ new_labels' = nl
                    /\ cur_max_label' = UnitMax(nl, r.in_unit)
                    /\ jobs' = IF recursive_steps[step]
                               THEN rest \o ChildJobs(nl, r.in_unit)
                               ELSE rest
    /\ cursor' = cursor + 1
    /\ labels' = CallerArray(labels, new_labels')
    /\ UNCHANGED <<op, pc, err, n_h5, h5_ok, max_channels, dataset, recursive_steps,
                   pool, step, nlabels_cur, ret>>
    /\ UNCHANGED <<mergevars, ldavars, driftvars>>

\* mutant of Collect: the children of a split go right behind their parent,
\* ahead of the jobs that are waiting
CollectChildrenFirst ==
    /\ op = "split" /\ pc = "collect" /\ cursor <= Len(jobs)
    /\ \E j \in NextFuture :
        /\ jobs[j].state = "done"
        /\ LET r == jobs[j].result
               nl == ApplySplit(new_labels, cur_max_label, r)
               rest == [jobs EXCEPT ![j] = Consumed(@)]
           IN  IF ~r.is_split
               THEN /\ jobs' = rest
                    /\ UNCHANGED <<new_labels, cur_max_label>>
               ELSE /\ new_labels' = nl
                    /\ cur_max_label' = UnitMax(nl, r.in_unit)
                    /\ jobs' = IF recursive_steps[step]
                               THEN SubSeq(rest, 1, j) \o ChildJobs(nl, r.in_unit)
                                    \o SubSeq(rest, j + 1, Len(rest))
                               ELSE rest
    /\ cursor' = cursor + 1
    /\ labels' = CallerArray(labels, new_labels')
    /\ UNCHANGED <<op, pc, err, n_h5, h5_ok, max_channels, dataset, recursive_steps, pool, step,
                   nlabels_cur, ret>>
    /\ UNCHANGED <<mergevars, ldavars, driftvars>>

\* lines 445-467: future.result() of a job that returned
Collect ==
    /\ op = "split" /\ pc = "collect" /\ cursor <= Len(jobs)
    /\ \E j \in NextFuture :
        /\ jobs[j].state = "done"
        /\ LET r == jobs[j].result
               nl == ApplySplit(new_labels, cur_max_label, r)
               rest == [jobs EXCEPT ![j] = Consumed(@)]
           IN  IF ~r.is_split
               THEN /\ jobs' = rest
                    /\ UNCHANGED <<new_labels, cur_max_label>>
               ELSE /\ new_labels' = nl
                    /\ cur_max_label' = UnitMax(nl, r.in_unit)
                    /\ jobs' = IF recursive_steps[step]
                               THEN rest \o ChildJobs(nl, r.in_unit)
                               ELSE rest
    /\ cursor' = cursor + 1
    /\ labels' = CallerArray(labels, new_labels')
    /\ UNCHANGED <<op, pc, err, n_h5, h5_ok, max_channels, dataset, recursive_steps, pool, step,
                   nlabels_cur, ret>>
    /\ UNCHANGED <<mergevars, ldavars, driftvars>>

\* mutant of CollectRaise: the worker's exception is swallowed and the loop
\* goes on to the next future
CollectRaiseSwallowed ==
    /\ op = "split" /\ pc = "collect" /\ cursor <= Len(jobs)
    /\ jobs[cursor].state = "failed"
    /\ cursor' = cursor + 1
    /\ UNCHANGED <<op, pc, err, labels, n_h5, h5_ok, max_channels, dataset, recursive_steps, new_labels,
                   pool, step, jobs, cur_max_label, nlabels_cur, ret>>
    /\ UNCHANGED <<mergevars, ldavars, driftvars>>

\* line 445: future.result() re-raises the worker's exception; the with block
\* shuts the pool down and split_clusters raises
CollectRaise ==
    /\ op = "split" /\ pc = "collect" /\ cursor <= Len(jobs)
    /\ jobs[cursor].state = "failed"
    /\ pc' = "raised"
    /\ err' = "job_failed"
    /\ pool' = "closed"
    /\ UNCHANGED <<op, labels, n_h5, h5_ok, max_channels, dataset, recursive_steps, new_labels, step, jobs,
                   cursor, cur_max_label, nlabels_cur, ret>>
    /\ UNCHANGED <<mergevars, ldavars, driftvars>>

\* mutant of EndStep: the step ends once the jobs submitted at its start are
\* taken, whatever was submitted since
EndStepInitialOnly ==
    /\ op = "split" /\ pc = "collect"
    /\ cursor > Len(jobs) \/ (cursor > nlabels_cur /\ cursor > 1)
    /\ IF step < Len(split_steps)
       THEN /\ step' = step + 1
            /\ pc' = "step_start"
            /\ UNCHANGED <<pool, ret>>
       ELSE /\ pool' = "closed"
            /\ ret' = new_labels
            /\ pc' = "returned"
            /\ UNCHANGED step
    /\ UNCHANGED <<op, err, labels, n_h5, h5_ok, max_channels, dataset, recursive_steps,
                   new_labels, jobs, cursor, cur_max_label, nlabels_cur>>
    /\ UNCHANGED <<mergevars, ldavars, driftvars>>

\* line 469, then the next split step or lines 470-471: return new_labels
EndStep ==
    /\ op = "split" /\ pc = "collect" /\ cursor > Len(jobs)
    /\ IF step < Len(split_steps)
       THEN /\ step' = step + 1
            /\ pc' = "step_start"
            /\ UNCHANGED <<pool, ret>>
       ELSE /\ pool' = "closed"
            /\ ret' = new_labels
            /\ pc' = "returned"
            /\ UNCHANGED step
    /\ UNCHANGED <<op, err, labels, n_h5, h5_ok, max_channels, dataset, recursive_steps, new_labels, jobs,
                   cursor, cur_max_label, nlabels_cur>>
    /\ UNCHANGED <<mergevars, ldavars, driftvars>>

NextSplit ==
    \/ SplitEntry
    \/ OpenPool
    \/ StartStep
    \/ \E j \in DOMAIN jobs : WorkerRun(j)
    \/ \E j \in DOMAIN jobs : WorkerFail(j)
    \/ Collect
    \/ CollectRaise
    \/ EndStep

\* ------------------------------------------------------- merge scheduler
\* np.unique(labels[labels >= 0], return_counts=True): the count of id i
OrigCount(arr, i) == Cardinality({k \in DOMAIN arr : arr[k] = i})

\* templates.ptp(1).max(1) * np.sqrt(orig_counts), squared (order-preserving)
SnrSq(tmpl, arr, i) == tmpl[i + 1] * tmpl[i + 1] * OrigCount(arr, i)

\* the permutations of the finite set S, as sequences
Perms(S) ==
    {f \in [1..Cardinality(S) -> S] : \A a, b \in DOMAIN f : a # b => f[a] # f[b]}

\* mutant of ArgsortSnr: the ids come in any order
ArgsortSnrAnyOrder(tmpl, arr) == Perms(UniqueNonneg(arr))

\* list(np.argsort(snrs)): ids by ascending snr (the order of ties is the sort's)
ArgsortSnr(tmpl, arr) ==
    {f \in Perms(UniqueNonneg(arr)) :
        \A a, b \in DOMAIN f : a < b => SnrSq(tmpl, arr, f[a]) <= SnrSq(tmpl, arr, f[b])}

\* mutant of MergeEntryOk: spare templates are let through
MergeEntryOkLoose(arr, tmpl) ==
    /\ Max(Range(arr)) + 1 = Cardinality(UniqueNonneg(arr))
    /\ Cardinality(UniqueNonneg(arr)) <= Len(tmpl)

\* line 631: assert labels.max() + 1 == orig_labels.size == templates.shape[0]
MergeEntryOk(arr, tmpl) ==
    /\ Max(Range(arr)) + 1 = Cardinality(UniqueNonneg(arr))
    /\ Cardinality(UniqueNonneg(arr)) = Len(tmpl)

max_resid_dist == MaxResid

ShiftValues == (0 - MaxShift)..MaxShift

\* mutant of ProposalOrders: the argsort of lines 610-612 is missing, the
\* candidates come in worklist order
ProposalOrdersUnsorted(rs) ==
    LET ix == {j \in DOMAIN rs : rs[j] < max_resid_dist}
    IN  {f \in Perms(ix) : \A a, b \in DOMAIN f : a < b => f[a] < f[b]}

\* lines 600-614 of get_proposed_pairs_for_unit: the positions whose residual
\* is below the threshold, in an order of ascending residual
ProposalOrders(rs) ==
    LET ix == {j \in DOMAIN rs : rs[j] < max_resid_dist}
    IN  {f \in Perms(ix) : \A a, b \in DOMAIN f : a < b => rs[f[a]] <= rs[f[b]]}

\* lines 597-598, 606: resids.squeeze() of one residual is 0-dimensional, and
\* indexing it with ix raises IndexError
ProposerRaises(rs) ==
    Len(rs) = 1 /\ \E j \in DOMAIN rs : rs[j] < max_resid_dist

\* lines 494-526, 564 of lda_diptest_merge: the values it can return for member
\* sets of na and nb events; both are subsampled to min(max_spikes, na, nb),
\* members without channel coverage are dropped, and fewer than min_spikes on
\* a side is a rejection
lda_diptest_merge(na, nb) ==
    LET m == IF na < nb THEN na ELSE nb
        max_spikes == IF MaxSpikes < m THEN MaxSpikes ELSE m
    IN  {FALSE} \cup (IF max_spikes >= MinSpikes THEN {TRUE} ELSE {})

\* mutant of LdaDiptest: the min_spikes test is made on the subsamples before
\* the members without coverage are dropped
LdaDiptestEarlyCount(a, b, tf) ==
    LET m == IF Cardinality(a) < Cardinality(b) THEN Cardinality(a)
             ELSE Cardinality(b)
        max_spikes == IF MaxSpikes < m THEN MaxSpikes ELSE m
    IN  IF max_spikes < MinSpikes THEN {FALSE} ELSE {FALSE, TRUE}

\* lines 494-526, 564 of lda_diptest_merge on member sets a and b when the
\* events tf have no coverage on the chosen channels: rg.choice draws
\* max_spikes members of each, those in tf are dropped, fewer than
\* min_spikes on a side returns False, otherwise the dip test decides
LdaDiptest(a, b, tf) ==
    LET m == IF Cardinality(a) < Cardinality(b) THEN Cardinality(a)
             ELSE Cardinality(b)
        max_spikes == IF MaxSpikes < m THEN MaxSpikes ELSE m
        Choice(S) == {T \in SUBSET S : Cardinality(T) = max_spikes}
        Decide(sa, sb) ==
            IF Cardinality(sa \ tf) < MinSpikes \/ Cardinality(sb \ tf) < MinSpikes
            THEN {FALSE}
            ELSE {FALSE, TRUE}
    IN  UNION {Decide(sa, sb) : sa \in Choice(a), sb \in Choice(b)}

\* mutant of RemoveFirst: nothing is removed
RemoveFirstKept(w, x) == w

\* labels_to_process.remove(candidate): the first occurrence goes
RemoveFirst(w, x) ==
    LET k == CHOOSE a \in DOMAIN w : w[a] = x /\ \A b \in 1..(a - 1) : w[b] # x
    IN  [a \in 1..(Len(w) - 1) |-> IF a < k THEN w[a] ELSE w[a + 1]]

\* mutant of RelabelMerge: the merged events get an id of their own
RelabelMergeFreshId(nl, candidate, lab) ==
    [e \in DOMAIN nl |-> IF nl[e] = candidate THEN Max(Range(nl)) + 1 ELSE nl[e]]

\* mutant of RelabelMerge: the candidate's events are filtered out of the array
RelabelMergeDropped(nl, candidate, lab) ==
    SelectSeq(nl, LAMBDA v : v # candidate)

\* new_labels[in_candidate] = label
RelabelMerge(nl, candidate, lab) ==
    [e \in DOMAIN nl |-> IF nl[e] = candidate THEN lab ELSE nl[e]]

\* mutant of ShiftTimes: every event that is in a cluster is shifted
ShiftTimesAllUnits(at, nl, candidate, shift) ==
    [e \in DOMAIN at |-> IF nl[e] >= 0 THEN at[e] + shift ELSE at[e]]

\* aligned_times[in_candidate] += shift
ShiftTimes(at, nl, candidate, shift) ==
    [e \in DOMAIN at |-> IF nl[e] = candidate THEN at[e] + shift ELSE at[e]]

\* mutant of UpdateTemplates: the label's entry is deleted with the candidate's
UpdateTemplatesDropBoth(td, candidate, lab, tmpl) ==
    [i \in DOMAIN td \ {candidate, lab} |-> td[i]]

\* mutant of UpdateTemplates: the candidate's entry is not deleted
UpdateTemplatesKeep(td, candidate, lab, tmpl) ==
    [i \in DOMAIN td |-> IF i = lab THEN tmpl ELSE td[i]]

\* del templates_dict[candidate]; templates_dict[label] = get_raw_template_single(...)
UpdateTemplates(td, candidate, lab, tmpl) ==
    [i \in DOMAIN td \ {candidate} |-> IF i = lab THEN tmpl ELSE td[i]]

\* the timestamps of the dataset the model draws from
SpikeTimeInputs == {[e \in Events |-> 10 * e]}

TemplateInputs == UNION {[1..m -> 1..MaxAmp] : m \in 0..MaxUnits}

MergeLabelArrays == [Events -> -1..(MaxUnits - 1)]

\* the split scheduler's state while merge_clusters runs
SplitIdle ==
    /\ dataset = FreeData
    /\ recursive_steps = DefaultRecursiveSteps
    /\ n_h5 = NEvents
    /\ h5_ok = TRUE
    /\ max_channels = [e \in Events |-> 0]
    /\ pool = "none"
    /\ step = 0
    /\ jobs = <<>>
    /\ cursor = 0
    /\ cur_max_label = -1
    /\ nlabels_cur = 0

\* merge_clusters is called: everything but the arguments labels and templates
MergeStart ==
    /\ op = "merge"
    /\ pc = "entry"
    /\ err = "none"
    /\ spike_times \in SpikeTimeInputs
    /\ recursive \in BOOLEAN
    /\ new_labels = <<>>
    /\ ret = <<>>
    /\ aligned_times = <<>>
    /\ templates_dict = <<>>
    /\ labels_to_process = <<>>
    /\ label = -1
    /\ proposals = <<>>
    /\ shifts = <<>>
    /\ resids = <<>>
    /\ all_shifts = <<>>
    /\ cand = 0
    /\ SplitIdle
    /\ LdaIdle
    /\ DriftIdle

MergeInit ==
    /\ labels \in MergeLabelArrays
    /\ templates \in TemplateInputs
    /\ MergeStart

\* merge_clusters called on a clustering where every event is a cluster of
\* its own, with one template per cluster: all of one amplitude, or the
\* first of the largest
MergeSingletonsInit ==
    /\ labels = [e \in Events |-> e - 1]
    /\ templates \in {[i \in 1..NEvents |-> 1],
                       [i \in 1..NEvents |-> IF i = 1 THEN MaxAmp ELSE 1]}
    /\ MergeStart

\* lines 628-658: the entry assertion, the copies, the dict and the worklist
MergeEntry ==
    /\ op = "merge" /\ pc = "entry"
    /\ IF ~MergeEntryOk(labels, templates)
       THEN /\ pc' = "raised" /\ err' = "AssertionError"
            /\ UNCHANGED <<new_labels, aligned_times, templates_dict,
                           labels_to_process>>
       ELSE /\ new_labels' = labels
            /\ templates_dict' = [i \in UniqueNonneg(labels) |-> templates[i + 1]]
            /\ aligned_times' = spike_times
            /\ labels_to_process' \in ArgsortSnr(templates, labels)
            /\ pc' = "while"
            /\ UNCHANGED err
    /\ UNCHANGED <<op, labels, ret, templates, spike_times, recursive, label,
                   proposals, shifts, resids, all_shifts, cand, splitvars, ldavars, driftvars>>

\* mutant of MergePop: the front of the worklist is popped
MergePopFront ==
    /\ op = "merge" /\ pc = "while"
    /\ Len(labels_to_process) > 1
    /\ label' = Head(labels_to_process)
    /\ labels_to_process' = Tail(labels_to_process)
    /\ pc' = "propose"
    /\ UNCHANGED <<op, err, labels, new_labels, ret, templates, spike_times,
                   recursive, aligned_times, templates_dict, proposals, shifts,
                   resids, all_shifts, cand, splitvars, ldavars, driftvars>>

\* lines 659-662: pop the end of the worklist
MergePop ==
    /\ op = "merge" /\ pc = "while"
    /\ Len(labels_to_process) > 1
    /\ label' = labels_to_process[Len(labels_to_process)]
    /\ labels_to_process' = SubSeq(labels_to_process, 1, Len(labels_to_process) - 1)
    /\ pc' = "propose"
    /\ UNCHANGED <<op, err, labels, new_labels, ret, templates, spike_times,
                   recursive, aligned_times, templates_dict, proposals, shifts,
                   resids, all_shifts, cand, splitvars, ldavars, driftvars>>

\* line 735: return aligned_times, new_labels
MergeReturn ==
    /\ op = "merge" /\ pc = "while"
    /\ Len(labels_to_process) <= 1
    /\ ret' = <<aligned_times, new_labels>>
    /\ pc' = "returned"
    /\ UNCHANGED <<op, err, labels, new_labels, mergevars, splitvars, ldavars, driftvars>>

\* lines 666-672: get_proposed_pairs_for_unit(label, labels_to_process, ...);
\* calc_resid_matrix answers one residual and one shift per other unit
Propose ==
    /\ op = "merge" /\ pc = "propose"
    /\ \E rs \in [DOMAIN labels_to_process -> 0..MaxResid],
          sh \in [DOMAIN labels_to_process -> ShiftValues] :
        /\ resids' = rs
        /\ all_shifts' = sh
        /\ IF ProposerRaises(rs)
           THEN /\ pc' = "raised" /\ err' = "IndexError"
                /\ UNCHANGED <<proposals, shifts, cand>>
           ELSE /\ \E f \in ProposalOrders(rs) :
                     /\ proposals' = [k \in DOMAIN f |-> labels_to_process[f[k]]]
                     /\ shifts' = [k \in DOMAIN f |-> sh[f[k]]]
                /\ cand' = 1
                /\ pc' = "candidates"
                /\ UNCHANGED err
    /\ UNCHANGED <<op, labels, new_labels, ret, templates, spike_times,
                   recursive, aligned_times, templates_dict, labels_to_process,
                   label, splitvars, ldavars, driftvars>>

\* line 733: the iteration is over; the proposer's answer is not read again
\* (the next iteration overwrites it)
IterationEnd ==
    /\ proposals' = <<>>
    /\ shifts' = <<>>
    /\ resids' = <<>>
    /\ all_shifts' = <<>>
    /\ cand' = 0

\* lines 680-694 with is_merge False: on to the next candidate
RejectCandidate ==
    /\ op = "merge" /\ pc = "candidates" /\ cand <= Len(proposals)
    /\ FALSE \in lda_diptest_merge(OrigCount(new_labels, label),
                                   OrigCount(new_labels, proposals[cand]))
    /\ cand' = cand + 1
    /\ UNCHANGED <<op, pc, err, labels, new_labels, ret, templates, spike_times,
                   recursive, aligned_times, templates_dict, labels_to_process,
                   label, proposals, shifts, resids, all_shifts, splitvars, ldavars, driftvars>>

\* mutant of CommitMerge: the label is pushed back at the front of the
\* worklist
CommitMergePushFront ==
    /\ op = "merge" /\ pc = "candidates" /\ cand <= Len(proposals)
    /\ TRUE \in lda_diptest_merge(OrigCount(new_labels, label),
                                  OrigCount(new_labels, proposals[cand]))
    /\ LET candidate == proposals[cand]
           shift == shifts[cand]
       IN  /\ aligned_times' = ShiftTimes(aligned_times, new_labels, candidate, shift)
           /\ new_labels' = RelabelMerge(new_labels, candidate, label)
           /\ \E tmpl \in 1..MaxAmp :
                 templates_dict' = UpdateTemplates(templates_dict, candidate, label, tmpl)
           /\ labels_to_process' =
                 IF recursive
                 THEN <<label>> \o RemoveFirst(labels_to_process, candidate)
                 ELSE RemoveFirst(labels_to_process, candidate)
    /\ pc' = "while"
    /\ IterationEnd
    /\ labels' = CallerArray(labels, new_labels')
    /\ UNCHANGED <<op, err, ret, templates, spike_times, recursive,
                   label, splitvars, ldavars, driftvars>>

\* mutant of CommitMerge: the label is pushed back whatever `recursive` says
CommitMergeAlwaysPush ==
    /\ op = "merge" /\ pc = "candidates" /\ cand <= Len(proposals)
    /\ TRUE \in lda_diptest_merge(OrigCount(new_labels, label),
                                  OrigCount(new_labels, proposals[cand]))
    /\ LET candidate == proposals[cand]
           shift == shifts[cand]
       IN  /\ aligned_times' = ShiftTimes(aligned_times, new_labels, candidate, shift)
           /\ new_labels' = RelabelMerge(new_labels, candidate, label)
           /\ \E tmpl \in 1..MaxAmp :
                 templates_dict' = UpdateTemplates(templates_dict, candidate, label, tmpl)
           /\ labels_to_process' =
                 Append(RemoveFirst(labels_to_process, candidate), label)
    /\ pc' = "while"
    /\ IterationEnd
    /\ labels' = CallerArray(labels, new_labels')
    /\ UNCHANGED <<op, err, ret, templates, spike_times, recursive,
                   label, splitvars, ldavars, driftvars>>

\* lines 696-731: the merge is accepted and committed, then break
CommitMerge ==
    /\ op = "merge" /\ pc = "candidates" /\ cand <= Len(proposals)
    /\ TRUE \in lda_diptest_merge(OrigCount(new_labels, label),
                                  OrigCount(new_labels, proposals[cand]))
    /\ LET candidate == proposals[cand]
           shift == shifts[cand]
       IN  /\ aligned_times' = ShiftTimes(aligned_times, new_labels, candidate, shift)
           /\ new_labels' = RelabelMerge(new_labels, candidate, label)
           /\ \E tmpl \in 1..MaxAmp :
                 templates_dict' = UpdateTemplates(templates_dict, candidate, label, tmpl)
           /\ labels_to_process' =
                 IF recursive
                 THEN Append(RemoveFirst(labels_to_process, candidate), label)
                 ELSE RemoveFirst(labels_to_process, candidate)
    /\ pc' = "while"
    /\ IterationEnd
    /\ labels' = CallerArray(labels, new_labels')
    /\ UNCHANGED <<op, err, ret, templates, spike_times, recursive,
                   label, splitvars, ldavars, driftvars>>

\* mutant of CandidatesExhausted: the label goes back to the front of the
\* worklist
CandidatesExhaustedRequeue ==
    /\ op = "merge" /\ pc = "candidates" /\ cand > Len(proposals)
    /\ pc' = "while"
    /\ labels_to_process' = <<label>> \o labels_to_process
    /\ IterationEnd
    /\ UNCHANGED <<op, err, labels, new_labels, ret, templates, spike_times,
                   recursive, aligned_times, templates_dict, label, splitvars, ldavars, driftvars>>

\* line 680: the for loop ends without a merge; line 733
CandidatesExhausted ==
    /\ op = "merge" /\ pc = "candidates" /\ cand > Len(proposals)
    /\ pc' = "while"
    /\ IterationEnd
    /\ UNCHANGED <<op, err, labels, new_labels, ret, templates, spike_times,
                   recursive, aligned_times, templates_dict, labels_to_process,
                   label, splitvars, ldavars, driftvars>>

NextMerge ==
    \/ MergeEntry
    \/ MergePop
    \/ MergeReturn
    \/ Propose
    \/ RejectCandidate
    \/ CommitMerge
    \/ CandidatesExhausted

Init == SplitInit \/ MergeInit

Next == NextSplit \/ NextMerge

\* either top-level function, on any input
Spec == Init /\ [][Next]_vars

\* split_clusters alone
SpecSplit == SplitInit /\ [][NextSplit]_vars

\* merge_clusters alone
SpecMerge == MergeInit /\ [][NextMerge]_vars

SpecMergeSingletons == MergeSingletonsInit /\ [][NextMerge]_vars

\* lda_diptest_merge called on two disjoint member sets
LdaInit ==
    /\ op = "lda"
    /\ pc = "entry"
    /\ err = "none"
    /\ in_unit_a \in SUBSET Events
    /\ in_unit_b \in SUBSET (Events \ in_unit_a)
    /\ no_coverage \in SUBSET Events
    /\ is_merge = "none"
    /\ labels = <<>> /\ new_labels = <<>> /\ ret = <<>>
    /\ MergeIdle
    /\ SplitIdle
    /\ DriftIdle

\* lines 477-564: the call returns
LdaCall ==
    /\ op = "lda" /\ pc = "entry"
    /\ is_merge' \in LdaDiptest(in_unit_a, in_unit_b, no_coverage)
    /\ pc' = "returned"
    /\ UNCHANGED <<op, err, labels, new_labels, ret, splitvars, mergevars,
                   in_unit_a, in_unit_b, no_coverage, driftvars>>

NextLda == LdaCall

SpecLda == LdaInit /\ [][NextLda]_vars

\* --------------------------------------- drifty_deconv_uhd.py: the update
\* A spike is a row [t, unit] of the spike train together with the entry of
\* the parallel arrays (x, z, dist_metric, maxptps) at the same index, of
\* which the model keeps x.

\* n_sec_temp_update: the length of a window, in seconds
NSecTempUpdate == 1

\* end_sec = min(start_sec + n_sec_temp_update, T_END)
EndSec(start) == IF start + NSecTempUpdate < TEnd THEN start + NSecTempUpdate ELSE TEnd

\* spt_before[:, 0] >= start_sec*pfs and spt_before[:, 0] < end_sec*pfs
InWindow(s, start, end) == s.t >= start * Pfs /\ s.t < end * Pfs

\* spt_before[idx_before]: the rows outside the window, in their order
RowsBefore(start, end, spt_before) ==
    SelectSeq(spt_before, LAMBDA s : ~InWindow(s, start, end))

\* spt_before[idx_unit]: the rows of `unit` inside the window, in their order
RowsOfUnit(start, end, spt_before, unit) ==
    SelectSeq(spt_before, LAMBDA s : InWindow(s, start, end) /\ s.unit = unit)

\* mutant of UnitsToAdd: no unit is added back
UnitsToAddNone(start, end, spt_before, spt_after) == <<>>

\* units_to_add = np.setdiff1d(np.unique(spt_before[idx_units_to_add, 1]),
\*                             np.unique(spt_after[:, 1]))
UnitsToAdd(start, end, spt_before, spt_after) ==
    SortedSeq({spt_before[k].unit : k \in {j \in DOMAIN spt_before :
                                              InWindow(spt_before[j], start, end)}}
              \ {spt_after[k].unit : k \in DOMAIN spt_after})

\* the for loop over units_to_add: each unit's rows are put in front
RECURSIVE AddUnits(_, _, _, _, _)
AddUnits(units, start, end, spt_before, acc) ==
    IF units = <<>> THEN acc
    ELSE AddUnits(Tail(units), start, end, spt_before,
                  RowsOfUnit(start, end, spt_before, Head(units)) \o acc)

\* the rows of update_spike_train_with_deconv_res before they are sorted
Concatenated(start, end, spt_before, spt_after) ==
    AddUnits(UnitsToAdd(start, end, spt_before, spt_after), start, end, spt_before,
             RowsBefore(start, end, spt_before) \o spt_after)

\* rows[rows[:, 0].argsort()]: the default sort is not stable, rows with the
\* same time come in the order the sort gives them
RECURSIVE SortedOrders(_, _)
SortedOrders(rows, I) ==
    IF I = {} THEN {<<>>}
    ELSE LET first == {i \in I : \A j \in I : rows[i].t <= rows[j].t}
         IN  UNION {{<<rows[i]>> \o rest : rest \in SortedOrders(rows, I \ {i})} :
                        i \in first}

ArgsortByTime(rows) == SortedOrders(rows, DOMAIN rows)

\* update_spike_train_with_deconv_res: the spike trains it can return
update_spike_train_with_deconv_res(start, end, spt_before, spt_after) ==
    ArgsortByTime(Concatenated(start, end, spt_before, spt_after))

\* the spikes a clustering can hand over: x is 0
PriorSpikes ==
    {[t |-> t, unit |-> u, x |-> 0] : t \in 0..(TEnd * Pfs - 1), u \in 0..MaxDeconvUnit}

\* the spike trains full_deconv_with_update is called with: ordered by time
PriorSpikeTrains ==
    UNION {{f \in [1..n -> PriorSpikes] :
              \A a, b \in 1..n : a < b => f[a].t <= f[b].t} : n \in 1..MaxPrior}

\* what superres_deconv_chunk and extract_superres_shifted_deconv can find in
\* the window that starts at `start`: spikes inside the window, localized
\* anew (x is the number of the window)
ChunkSpikes(start) ==
    {[t |-> t, unit |-> u, x |-> start + 1] :
        t \in (start * Pfs)..(EndSec(start) * Pfs - 1), u \in 0..MaxDeconvUnit}

ChunkResults(start) ==
    UNION {[1..n -> ChunkSpikes(start)] : n \in 0..MaxChunk}

\* full_deconv_with_update is called
DeconvInit ==
    /\ op = "deconv"
    /\ pc = "chunk"
    /\ err = "none"
    /\ spike_train \in PriorSpikeTrains
    /\ spt_chunk = <<>>
    /\ start_sec = 0
    /\ labels = <<>> /\ new_labels = <<>> /\ ret = <<>>
    /\ MergeIdle
    /\ SplitIdle
    /\ LdaIdle
    /\ ShiftIdle

\* lines 911-972: the window is deconvolved and its spikes are read back
DeconvChunk ==
    /\ op = "deconv" /\ pc = "chunk"
    /\ start_sec < TEnd
    /\ spt_chunk' \in ChunkResults(start_sec)
    /\ pc' = "update"
    /\ UNCHANGED <<op, err, labels, new_labels, ret, splitvars, mergevars, ldavars,
                   spike_train, start_sec, shiftvars>>

\* lines 995-1001: spike_train = update_spike_train_with_deconv_res(...), and
\* the for loop goes to the next window
UpdateSpikeTrain ==
    /\ op = "deconv" /\ pc = "update"
    /\ spike_train' \in update_spike_train_with_deconv_res(
                            start_sec, EndSec(start_sec), spike_train, spt_chunk)
    /\ start_sec' = start_sec + NSecTempUpdate
    /\ pc' = "chunk"
    /\ UNCHANGED <<op, err, labels, new_labels, ret, splitvars, mergevars, ldavars,
                   spt_chunk, shiftvars>>

\* lines 1003-1018: the loop is over, the full result is saved
DeconvSave ==
    /\ op = "deconv" /\ pc = "chunk"
    /\ start_sec >= TEnd
    /\ pc' = "returned"
    /\ ret' = spike_train
    /\ UNCHANGED <<op, err, labels, new_labels, splitvars, mergevars, ldavars,
                   driftvars>>

NextDeconv ==
    \/ DeconvChunk
    \/ UpdateSpikeTrain
    \/ DeconvSave

\* full_deconv_with_update alone
SpecDeconv == DeconvInit /\ [][NextDeconv]_vars

\* ------------------------------- drifty_deconv_uhd.py: shifted templates
\* A superres template is written [label |-> k, pitches |-> m]: the template
\* of superres label k moved by m pitches along the probe.  Lengths are in
\* units of bin_size_um, so bins_per_pitch is the pitch; registered_medians
\* and medians_at_computation are equal, so shift_um is the displacement.

\* pitch_shift_templates(n, geom, templates) of waveform_utils: every
\* template is moved by n pitches
pitch_shift_templates(n, tmpls) ==
    [i \in DOMAIN tmpls |-> [label |-> tmpls[i].label, pitches |-> tmpls[i].pitches + n]]

\* int(a / b), which rounds towards 0
IntDiv(a, b) == IF a >= 0 THEN a \div b ELSE 0 - ((0 - a) \div b)

\* a.min() and a.max()
SeqMin(a) == CHOOSE x \in Range(a) : \A y \in Range(a) : x <= y
SeqMax(a) == CHOOSE x \in Range(a) : \A y \in Range(a) : y <= x

\* np.roll(a, r)
Roll(a, r) == [i \in DOMAIN a |-> a[((i - 1 - r) % Len(a)) + 1]]

\* np.flatnonzero(np.isin(bins, targets)), as positions 1..n
IdxModShift(bins, targets) == SortedSeq({i \in DOMAIN bins : bins[i] \in targets})

\* lines 323-374 for one unit: tmpls is superres_templates[mask] and bins is
\* superres_label_to_bin_id[mask]; what is written to shifted_templates[mask]
\* and what superres_label_to_bin_id[mask] is afterwards
ShiftUnit(tmpls, bins, disp_value, ptch) ==
    LET bins_shift == disp_value
        n_pitches_shift == IntDiv(bins_shift, ptch)
        bins_shift_rem == bins_shift - ptch * n_pitches_shift
        shifted_templates_unit == pitch_shift_templates(n_pitches_shift, tmpls)
        n_temp == Len(tmpls)
        down == IdxModShift(bins, {SeqMin(bins) - k + ptch - 1 :
                                       k \in 0..((0 - bins_shift_rem) - 1)})
        up == IdxModShift(bins, {SeqMax(bins) + k - ptch + 1 :
                                     k \in 0..(bins_shift_rem - 1)})
    IN  IF bins_shift = 0 THEN [templates |-> tmpls, bin_id |-> bins]
        ELSE IF /\ bins_shift_rem < 0
                /\ (2 * bins_shift_rem < 0 - ptch \/ 2 * n_temp > ptch)
                /\ Len(down) > 0
        THEN LET moved == pitch_shift_templates(
                              -1, [j \in DOMAIN down |-> shifted_templates_unit[down[j]]])
             IN  [templates |->
                     [i \in DOMAIN tmpls |->
                         IF i > n_temp - Len(down) THEN moved[i - (n_temp - Len(down))]
                         ELSE shifted_templates_unit[i]],
                  bin_id |-> Roll(bins, 0 - Len(down))]
        ELSE IF /\ bins_shift_rem > 0
                /\ (2 * bins_shift_rem > ptch \/ 2 * n_temp > ptch)
                /\ Len(up) > 0
        THEN LET moved == pitch_shift_templates(
                              1, [j \in DOMAIN up |-> shifted_templates_unit[up[j]]])
             IN  [templates |->
                     [i \in DOMAIN tmpls |->
                         IF i <= Len(up) THEN moved[i] ELSE shifted_templates_unit[i]],
                  bin_id |-> Roll(bins, Len(up))]
        ELSE [templates |-> shifted_templates_unit, bin_id |-> bins]

\* the positions of a unit's superres labels: the mask
\* superres_label_to_orig_label == unit
MaskOf(orig, unit) == Flatnonzero(orig, unit)

\* the position of superres label k within its unit's mask
PlaceIn(orig, k) == Cardinality({j \in 1..k : orig[j] = orig[k]})

\* shift_superres_templates: the array it returns, and the bin id table as
\* the call leaves it
shift_superres_templates(tmpls, bin_id, orig, disp_value, ptch) ==
    LET unit_result(u) ==
            ShiftUnit([i \in DOMAIN MaskOf(orig, u) |-> tmpls[MaskOf(orig, u)[i]]],
                      [i \in DOMAIN MaskOf(orig, u) |-> bin_id[MaskOf(orig, u)[i]]],
                      disp_value, ptch)
    IN  [templates |-> [k \in DOMAIN orig |->
                            unit_result(orig[k]).templates[PlaceIn(orig, k)]],
         bin_id |-> [k \in DOMAIN orig |->
                            unit_result(orig[k]).bin_id[PlaceIn(orig, k)]]]

\* the superres templates shift_deconv is called with
SuperresTemplates(orig) == [k \in DOMAIN orig |-> [label |-> k, pitches |-> 0]]

\* lines 48-89 of superres_spike_train: the labels of a unit are its occupied
\* bins in ascending order, the units in ascending order
RECURSIVE TablesOf(_, _)
TablesOf(u, occupied) ==
    IF u > Len(occupied) THEN [bin_id |-> <<>>, orig |-> <<>>]
    ELSE LET rest == TablesOf(u + 1, occupied)
             bins == SortedSeq(occupied[u])
         IN  [bin_id |-> bins \o rest.bin_id,
              orig |-> [i \in DOMAIN bins |-> u - 1] \o rest.orig]

OccupiedBins == SUBSET ((0 - MaxBin)..MaxBin) \ {{}}

SuperresTables ==
    {TablesOf(1, occ) : occ \in UNION {[1..n -> OccupiedBins] : n \in 1..MaxShiftUnits}}

\* np.unique(bin_shifts): distinct displacement values in ascending order
UniqueShiftInputs ==
    {SortedSeq(S) : S \in SUBSET ((0 - MaxDisp)..MaxDisp) \ {{}}}

\* superres_deconv_chunk calls shift_deconv
ShiftInit ==
    /\ op = "shift_deconv"
    /\ pc = "shifts"
    /\ err = "none"
    /\ \E tb \in SuperresTables :
          /\ superres_label_to_bin_id = tb.bin_id
          /\ superres_label_to_orig_label = tb.orig
    /\ pitch \in 2..MaxPitch
    /\ unique_shifts \in UniqueShiftInputs
    /\ shift_k = 1
    /\ shifted_templates = <<>>
    /\ labels = <<>> /\ new_labels = <<>> /\ ret = <<>>
    /\ MergeIdle
    /\ SplitIdle
    /\ LdaIdle
    /\ DeconvIdle

\* lines 421-434: the comprehension calls shift_superres_templates for the
\* next displacement value; the call writes superres_label_to_bin_id in place
ShiftOne ==
    /\ op = "shift_deconv" /\ pc = "shifts"
    /\ shift_k <= Len(unique_shifts)
    /\ LET r == shift_superres_templates(
                    SuperresTemplates(superres_label_to_orig_label),
                    superres_label_to_bin_id, superres_label_to_orig_label,
                    unique_shifts[shift_k], pitch)
       IN  /\ shifted_templates' = Append(shifted_templates, r.templates)
           /\ superres_label_to_bin_id' = r.bin_id
    /\ shift_k' = shift_k + 1
    /\ UNCHANGED <<op, pc, err, labels, new_labels, ret, splitvars, mergevars,
                   ldavars, deconvvars, superres_label_to_orig_label, pitch,
                   unique_shifts>>

\* line 434: the array of shifted templates is complete
ShiftsDone ==
    /\ op = "shift_deconv" /\ pc = "shifts"
    /\ shift_k > Len(unique_shifts)
    /\ pc' = "returned"
    /\ ret' = shifted_templates
    /\ UNCHANGED <<op, err, labels, new_labels, splitvars, mergevars, ldavars,
                   driftvars>>

NextShift ==
    \/ ShiftOne
    \/ ShiftsDone

\* shift_deconv up to its shifted templates
SpecShift == ShiftInit /\ [][NextShift]_vars

\* split_clusters on a dataset that fixes every test outcome: what is left
\* open is the order in which the workers finish
SpecDet == DetInit /\ [][NextSplit]_vars

SpecSplitRec == SplitRecInit /\ [][NextSplit]_vars

\* split_clusters called with the default flags on one cluster that holds
\* every event, all on one channel
SplitOneClusterInit ==
    /\ SplitStart
    /\ labels = [e \in Events |-> 0]
    /\ max_channels = [e \in Events |-> 0]
    /\ n_h5 = NEvents
    /\ h5_ok
    /\ dataset = FreeData
    /\ recursive_steps = DefaultRecursiveSteps

\* the workers finish their jobs and the for loop, which blocks in
\* future.result() until then, goes on
SpecSplitOneClusterLive ==
    SplitOneClusterInit /\ [][NextSplit]_vars /\ WF_vars(NextSplit)

\* ------------------------------------------------------------------ claims
\* min_size_split of the test of step s
MinSizeOf(s) ==
    IF split_steps[s] = "ks_bimodal_pursuit_split" THEN KsMinSizeSplit
    ELSE MinSizeSplit

\* the for loop of split_clusters takes the result of the future at `cursor`
CollectStep == op = "split" /\ pc = "collect" /\ cursor' = cursor + 1

\* the merge loop commits a merge of proposals[cand] into label
CommitStep ==
    op = "merge" /\ pc = "candidates" /\ pc' = "while" /\ cand <= Len(proposals)

EntryErrors == {"ValueError_contig", "ValueError_shape", "AssertionError"}

\* C1: for every input that passes the entry checks of split_clusters (one
\* without any non-negative label included) and whatever the split tests
\* return, split_clusters returns a label array, and that array holds only -1
\* and the ids 0..K'-1 without a gap.  Stated as: a run ends by raising only
\* on a failed entry check or a failed job, and a returned array is compacted.
C1_SplitOutputCompacted ==
    op = "split" =>
        /\ (pc = "returned" => Compacted(ret))
        /\ (pc = "raised" => err \in EntryErrors \cup {"job_failed"})

\* C2: the label array merge_clusters returns holds only -1 and a contiguous
\* set of ids 0..K'-1.
C2_MergeOutputCompacted ==
    (op = "merge" /\ pc = "returned") => Compacted(ret[2])

\* C3: event conservation.  The working label array, the returned label
\* array and the returned timestamps are indexed by exactly the input's event
\* indices, and every event carries one label, a cluster id or -1.
C3_EventConservation ==
    /\ new_labels # <<>> =>
          /\ DOMAIN new_labels = DOMAIN labels
          /\ \A e \in DOMAIN new_labels : new_labels[e] \in Int /\ new_labels[e] >= -1
    /\ aligned_times # <<>> => DOMAIN aligned_times = DOMAIN spike_times
    /\ (op = "split" /\ pc = "returned") => DOMAIN ret = DOMAIN labels
    /\ (op = "merge" /\ pc = "returned") =>
          /\ DOMAIN ret[1] = DOMAIN spike_times
          /\ DOMAIN ret[2] = DOMAIN labels
          /\ DOMAIN ret[1] = DOMAIN ret[2]

\* C3 witness: split_clusters returned after a split that triaged an event,
\* which is still in the array, as -1
C3_Witness ==
    /\ op = "split" /\ pc = "returned"
    /\ \E e \in DOMAIN labels : labels[e] >= 0 /\ ret[e] = -1
    /\ Cardinality(UniqueNonneg(ret)) > Cardinality(UniqueNonneg(labels))

Units(js) == [k \in DOMAIN js |-> js[k].in_unit]

\* the for loop of lines 437-467 run with one worker on the fixed dataset:
\* each job of `queue` is computed when the loop gets to it; <<>> when a
\* job raises
RECURSIVE SeqDrain(_, _, _, _)
SeqDrain(nl, cml, queue, s) ==
    IF queue = <<>> THEN nl
    ELSE IF DataFails(Head(queue)) THEN <<>>
    ELSE LET r == CHOOSE x \in DataVerdict(s, Head(queue)) : TRUE
             nl2 == ApplySplit(nl, cml, r)
         IN  IF ~r.is_split
             THEN SeqDrain(nl, cml, Tail(queue), s)
             ELSE SeqDrain(nl2, UnitMax(nl2, r.in_unit),
                           IF recursive_steps[s]
                           THEN Tail(queue) \o Units(ChildJobs(nl2, r.in_unit))
                           ELSE Tail(queue),
                           s)

\* the steps of lines 428-467 from step s on, run with one worker
RECURSIVE SeqSteps(_, _)
SeqSteps(nl, s) ==
    IF s > Len(split_steps) THEN nl
    ELSE IF UniqueNonneg(nl) = {} THEN <<>>
    ELSE LET out == SeqDrain(nl, Max(UniqueNonneg(nl)), Units(StepJobs(nl)), s)
         IN  IF out = <<>> THEN <<>> ELSE SeqSteps(out, s + 1)

\* C5: with the verdict of every job fixed by the dataset, the label array
\* split_clusters returns is the same whatever the order in which the workers
\* finish: it is the array of the one-worker run, and a run ends on a failed
\* job only if the one-worker run does.
C5_SplitOrderIndependent ==
    (op = "split" /\ dataset.known) =>
        /\ pc = "returned" => ret = SeqSteps(labels, 1)
        /\ (pc = "raised" /\ err = "job_failed") => SeqSteps(labels, 1) = <<>>

\* C5 witness: a later job has finished with a split verdict while the job
\* the loop waits for, which will split too, is still running
C5_Witness ==
    /\ op = "split" /\ dataset.known /\ pc = "collect" /\ cursor = 1
    /\ Len(jobs) >= 2
    /\ jobs[1].state = "pending"
    /\ ~DataFails(jobs[1].in_unit)
    /\ \E r \in DataVerdict(step, jobs[1].in_unit) : r.is_split
    /\ jobs[2].state = "done" /\ jobs[2].result.is_split

\* C6: a job whose member set is smaller than min_size_split returns
\* (False, None, None) in each of the three tests, and taking that result
\* leaves the label array as it was.
C6_MinSizeGuard ==
    /\ [](\A j \in DOMAIN jobs :
            (jobs[j].state = "done" /\ Len(jobs[j].in_unit) < MinSizeOf(step)) =>
                /\ jobs[j].result.is_split = FALSE
                /\ jobs[j].result.unit_new_labels = <<>>
                /\ jobs[j].result.in_unit = <<>>)
    /\ [][(CollectStep /\ Len(jobs[cursor].in_unit) < MinSizeOf(step)) =>
            new_labels' = new_labels]_vars

\* C6 witness: the recursive step has taken the result of a job on a member
\* set below its min_size_split, created by a split
C6_Witness ==
    /\ op = "split" /\ pc = "collect" /\ split_steps[step] = "ks_bimodal_pursuit_split"
    /\ \E j \in DOMAIN jobs :
          /\ jobs[j].state = "collected"
          /\ Len(jobs[j].in_unit) < KsMinSizeSplit
          /\ Len(jobs[j].in_unit) > 1
          /\ j > nlabels_cur

\* C7: a label array whose ids are not contiguous from 0, or whose length is
\* not the dataset's event count, makes split_clusters raise before the pool
\* exists, before any job is submitted and before any label is written.
C7_SplitEntryRejects ==
    (op = "split" /\ pc # "entry"
        /\ (~Compacted(labels) \/ Len(labels) # n_h5)) =>
        /\ pc = "raised"
        /\ err \in {"ValueError_contig", "ValueError_shape"}
        /\ pool = "none"
        /\ jobs = <<>>
        /\ new_labels = <<>>
        /\ ret = <<>>

\* C7 witness: contiguous labels of the wrong length were rejected
C7_Witness ==
    op = "split" /\ pc = "raised" /\ err = "ValueError_shape" /\ Compacted(labels)

\* C8: merge_clusters checks at entry that the ids are contiguous from 0 and
\* that there is exactly one template per id; a violation ends the run before
\* the worklist exists and before any label or timestamp is written.
C8_MergeEntryRejects ==
    (op = "merge" /\ pc # "entry"
        /\ (~Compacted(labels) \/ Len(templates) # Cardinality(UniqueNonneg(labels)))) =>
        /\ pc = "raised"
        /\ err = "AssertionError"
        /\ new_labels = <<>>
        /\ aligned_times = <<>>
        /\ templates_dict = <<>>
        /\ labels_to_process = <<>>
        /\ ret = <<>>

\* C8 witness: contiguous labels with one template too many were rejected
C8_Witness ==
    /\ op = "merge" /\ pc = "raised" /\ err = "AssertionError"
    /\ Compacted(labels)
    /\ Len(templates) = Cardinality(UniqueNonneg(labels)) + 1

\* C9: a job that failed in a worker ends the run when its result is taken:
\* the loop never moves past a failed job, a failed job is not run again, and
\* once split_clusters has raised no label changes and nothing is returned.
C9_FailedJobAborts ==
    /\ [](op = "split" =>
            /\ \A j \in DOMAIN jobs : jobs[j].state = "failed" => cursor <= j
            /\ (pc = "raised" /\ err = "job_failed") =>
                  (jobs[cursor].state = "failed" /\ ret = <<>>))
    /\ [][(op = "split" /\ \E j \in DOMAIN jobs : jobs[j].state = "failed") =>
            /\ Len(jobs') >= Len(jobs)
            /\ \A j \in DOMAIN jobs :
                  jobs[j].state = "failed" => jobs'[j] = jobs[j]]_vars
    /\ [][(op = "split" /\ pc = "raised") =>
            (pc' = "raised" /\ new_labels' = new_labels /\ ret' = ret)]_vars

\* C9 witness: the run was aborted by a failed job after an earlier job's
\* split had been applied and while a later job's result was ready
C9_Witness ==
    /\ op = "split" /\ pc = "raised" /\ err = "job_failed"
    /\ new_labels # labels
    /\ \E j \in DOMAIN jobs : j > cursor /\ jobs[j].state = "done" /\ jobs[j].result.is_split

\* C10: once the orchestrator has handled a job's result, every event the
\* test excluded for missing channel coverage carries -1 in the label array.
C10_TriagedCarryMinusOne ==
    [][CollectStep =>
        \A e \in jobs[cursor].result.too_far : new_labels'[e] = -1]_vars

\* C11: in ks_bimodal_pursuit_split a variance or responsibility collapse at
\* any iteration, the first included, only ends the pursuit loop: the job
\* goes on to its split decision and does not fail.
C11_CollapseNeverFails ==
    \A j \in DOMAIN jobs :
        jobs[j].pursuit \in CollapsePoints => jobs[j].state # "failed"

\* the residual and the shift calc_resid_matrix answered for unit u of the
\* worklist
ResidOf(u) == resids[CHOOSE j \in DOMAIN labels_to_process : labels_to_process[j] = u]

ShiftOf(u) == all_shifts[CHOOSE j \in DOMAIN labels_to_process : labels_to_process[j] = u]

\* the units of the worklist whose residual is below max_resid_dist
Qualifying ==
    {labels_to_process[j] : j \in {i \in DOMAIN labels_to_process :
                                      resids[i] < max_resid_dist}}

\* the members of cluster u
Members(nl, u) == {e \in DOMAIN nl : nl[e] = u}

\* C12: with exactly two input clusters whose residual is below
\* max_resid_dist and whose pair the merge oracle accepts, merge_clusters
\* completes with one live id.  Stated as: on two input clusters the proposer
\* does not raise, and a run that returns after a commit has one live id.
C12_TwoClustersMerge ==
    (op = "merge" /\ Cardinality(UniqueNonneg(labels)) = 2) =>
        /\ err # "IndexError"
        /\ (pc = "returned" /\ new_labels # labels) =>
              Cardinality(UniqueNonneg(ret[2])) = 1

\* C13: within one iteration of the merge loop the candidates are tested in
\* ascending residual order; a rejection moves on to the next rank and
\* changes nothing; a commit merges the candidate under test and ends the
\* iteration, so no later candidate is tested and one merge at most is
\* committed per iteration.
C13_FirstAcceptedWins ==
    /\ []((op = "merge" /\ pc = "candidates") =>
            /\ cand \in 1..(Len(proposals) + 1)
            /\ \A k, l \in DOMAIN proposals :
                  k < l => ResidOf(proposals[k]) <= ResidOf(proposals[l]))
    /\ [][(op = "merge" /\ pc = "candidates" /\ pc' = "candidates") =>
            /\ cand' = cand + 1
            /\ UNCHANGED <<new_labels, aligned_times, templates_dict,
                           labels_to_process, proposals, shifts>>]_vars
    /\ [][(op = "merge" /\ pc # "entry" /\ new_labels' # new_labels) =>
            /\ pc = "candidates" /\ cand <= Len(proposals)
            /\ new_labels' = [e \in DOMAIN new_labels |->
                                 IF new_labels[e] = proposals[cand]
                                 THEN label ELSE new_labels[e]]
            /\ pc' = "while" /\ proposals' = <<>>]_vars

\* C13 witness: the closest candidate was rejected and the second, with a
\* larger residual, is under test
C13_Witness ==
    /\ op = "merge" /\ pc = "candidates" /\ cand = 2 /\ Len(proposals) = 2
    /\ ResidOf(proposals[1]) < ResidOf(proposals[2])

\* the live ids that are out of the loop: not in the worklist and not the
\* label being processed
Retired ==
    DOMAIN templates_dict
        \ (Range(labels_to_process)
           \cup (IF pc \in {"propose", "candidates"} THEN {label} ELSE {}))

\* the for loop over the candidates of `label` ends without a merge
ExhaustStep ==
    op = "merge" /\ pc = "candidates" /\ pc' = "while" /\ cand > Len(proposals)

\* C14: a label whose candidates were all refused is dropped for good: it is
\* out of the worklist from then on, it is never proposed as a candidate
\* (candidates are ids of the worklist), and its member set does not change.
C14_DroppedForGood ==
    /\ [][ExhaustStep => label \in Retired']_vars
    /\ [][op = "merge" =>
            \A u \in Retired :
                /\ u \in Retired'
                /\ Members(new_labels', u) = Members(new_labels, u)]_vars
    /\ []((op = "merge" /\ pc = "candidates") =>
            /\ Range(proposals) \subseteq Range(labels_to_process)
            /\ Range(proposals) \cap Retired = {})

\* C14 witness: no merge was committed, a label was dropped on exhaustion
\* and the loop is testing the candidates of a label popped after it
C14_Witness ==
    /\ op = "merge" /\ pc = "candidates" /\ Retired # {}
    /\ new_labels = labels

\* merge_clusters with a scheduler that keeps running it
SpecMergeLive == MergeInit /\ [][NextMerge]_vars /\ WF_vars(NextMerge)

\* C15: the merge loop terminates whatever the proposer and the oracle
\* answer: the pop shortens the worklist by one and the rest of the iteration
\* does not lengthen it (a pushed-back label takes the place of the removed
\* candidate), and the loop is left exactly when the worklist has fewer than
\* 2 entries.
C15_MergeTerminates ==
    /\ <>(op = "merge" /\ pc \in {"returned", "raised"})
    /\ [][(op = "merge" /\ pc = "while" /\ pc' = "propose") =>
            Len(labels_to_process') = Len(labels_to_process) - 1]_vars
    /\ [][(op = "merge" /\ pc \in {"propose", "candidates"}) =>
            Len(labels_to_process') <= Len(labels_to_process)]_vars
    /\ [][(op = "merge" /\ pc = "while") =>
            (pc' = "returned" <=> Len(labels_to_process) < 2)]_vars
    /\ []((op = "merge" /\ pc = "returned") => Len(labels_to_process) < 2)

\* C15 witness: a recursive run committed a merge, pushed the label back and
\* left the loop
C15_Witness ==
    /\ op = "merge" /\ pc = "returned" /\ recursive
    /\ new_labels # labels

\* the proposer was called
ProposeStep == op = "merge" /\ pc = "propose" /\ pc' # "propose"

\* C16: get_proposed_pairs_for_unit returns exactly the ids of the worklist
\* whose residual is below max_resid_dist, by ascending residual, each with
\* its own shift; when none qualifies it returns an empty list and the
\* iteration tests no pair and commits no merge.
C16_ProposerAnswer ==
    /\ [][ProposeStep =>
            LET at(u) == CHOOSE j \in DOMAIN labels_to_process :
                            labels_to_process[j] = u
            IN  /\ pc' = "candidates"
                /\ Range(proposals') = Qualifying'
                /\ Len(proposals') = Cardinality(Qualifying')
                /\ Len(shifts') = Len(proposals')
                /\ \A k \in DOMAIN proposals' :
                      shifts'[k] = all_shifts'[at(proposals'[k])]
                /\ \A k, l \in DOMAIN proposals' :
                      k < l => resids'[at(proposals'[k])]
                                  <= resids'[at(proposals'[l])]]_vars
    /\ [][(op = "merge" /\ pc = "candidates" /\ proposals = <<>>) =>
            /\ pc' = "while"
            /\ UNCHANGED <<new_labels, aligned_times, templates_dict,
                           labels_to_process>>]_vars

\* C17: lda_diptest_merge returns False whenever, after both member sets were
\* subsampled to min(max_spikes, |a|, |b|) and the members without channel
\* coverage dropped, a side can have fewer than min_spikes members left;
\* hence a member set of fewer than min_spikes events is never merged, and
\* the answers are among those the merge loop is given.
C17_MinSpikesReject ==
    /\ []((op = "lda" /\ pc = "returned") =>
            LET na == Cardinality(in_unit_a)
                nb == Cardinality(in_unit_b)
                m == IF na < nb THEN na ELSE nb
                sub == IF MaxSpikes < m THEN MaxSpikes ELSE m
            IN  /\ (na < MinSpikes \/ nb < MinSpikes) => is_merge = FALSE
                /\ is_merge = TRUE =>
                      \E sa \in SUBSET in_unit_a, sb \in SUBSET in_unit_b :
                          /\ Cardinality(sa) = sub /\ Cardinality(sb) = sub
                          /\ Cardinality(sa \ no_coverage) >= MinSpikes
                          /\ Cardinality(sb \ no_coverage) >= MinSpikes)
    /\ []((op = "lda" /\ pc = "returned") =>
            is_merge \in lda_diptest_merge(Cardinality(in_unit_a),
                                           Cardinality(in_unit_b)))

\* C17 witness: both member sets have min_spikes events or more, the
\* subsample of one lost its members to missing coverage, and the call
\* returned False
C17_Witness ==
    /\ op = "lda" /\ pc = "returned" /\ is_merge = FALSE
    /\ Cardinality(in_unit_a) >= MinSpikes /\ Cardinality(in_unit_b) >= MinSpikes
    /\ Cardinality(in_unit_a \ no_coverage) < MinSpikes
    /\ Cardinality(in_unit_b \ no_coverage) >= MinSpikes

\* C18: split_clusters and merge_clusters never modify the caller's label
\* array: no step of either changes it, whether the run goes on, returns or
\* raises, while the relabelling happens on the copy made at entry.
C18_CallerArrayUntouched ==
    /\ [][(op \in {"split", "merge"}) => labels' = labels]_vars
    /\ [][(op \in {"split", "merge"} /\ new_labels' # new_labels) =>
            \/ pc = "entry" /\ new_labels' = labels
            \/ pc \in {"collect", "candidates"}]_vars

\* C18 witness: a split run aborted on a failed job after the copy had been
\* relabelled
C18_Witness ==
    /\ op = "split" /\ pc = "raised" /\ err = "job_failed"
    /\ new_labels # labels

\* the for loop applies the result of a job that split its unit
SplitApplied ==
    /\ CollectStep
    /\ jobs[cursor].state = "done"
    /\ jobs[cursor].result.is_split

\* C19: whenever a split result is applied, every id given to a member with
\* sub-label >= 1 is greater than every id in the label array at that moment,
\* so two events of different clusters before the job are not in one cluster
\* after it; for every verdict of every split test, recursive steps included.
C19_SplitIdsFresh ==
    [][SplitApplied =>
        LET r == jobs[cursor].result
        IN  /\ \A p \in DOMAIN r.in_unit :
                  r.unit_new_labels[p] >= 1 =>
                      new_labels'[r.in_unit[p]] > Max(Range(new_labels))
            /\ \A e1, e2 \in DOMAIN new_labels :
                  (new_labels[e1] >= 0 /\ new_labels[e2] >= 0
                   /\ new_labels[e1] # new_labels[e2]) =>
                      ~(new_labels'[e1] >= 0 /\ new_labels'[e1] = new_labels'[e2])]_vars

\* C19 witness: in the recursive step the children of a split unit were
\* submitted and three clusters exist
C19_Witness ==
    /\ op = "split" /\ pc = "collect" /\ recursive_steps[step]
    /\ Len(jobs) > Cardinality(UniqueNonneg(labels))
    /\ Cardinality(UniqueNonneg(new_labels)) >= 3

\* C20: when a split result is applied, the members of the job, which all
\* carry the job's cluster id, are relabelled so: negative sub-label -> -1,
\* sub-label 0 -> the id is kept, sub-label s >= 1 -> cur_max_label before
\* the job plus s; no other event changes; cur_max_label becomes the largest
\* label among the job's members.
C20_RelabelRule ==
    [][SplitApplied =>
        LET r == jobs[cursor].result
            iu == r.in_unit
            unl == r.unit_new_labels
        IN  /\ \A p, q \in DOMAIN iu :
                  new_labels[iu[p]] >= 0 /\ new_labels[iu[p]] = new_labels[iu[q]]
            /\ \A p \in DOMAIN iu :
                  /\ unl[p] < 0 => new_labels'[iu[p]] = -1
                  /\ unl[p] = 0 => new_labels'[iu[p]] = new_labels[iu[p]]
                  /\ unl[p] >= 1 => new_labels'[iu[p]] = cur_max_label + unl[p]
            /\ \A e \in DOMAIN new_labels \ Range(iu) :
                  new_labels'[e] = new_labels[e]
            /\ \A p \in DOMAIN iu : new_labels'[iu[p]] <= cur_max_label'
            /\ \E p \in DOMAIN iu : new_labels'[iu[p]] = cur_max_label']_vars

\* C20 witness: after a split was applied while two clusters existed, one
\* event is triaged, one kept its id and one has a new id, and cur_max_label
\* is the new id
C20_Witness ==
    /\ op = "split" /\ pc = "collect" /\ cursor > 1
    /\ jobs[cursor - 1].state = "collected"
    /\ Cardinality(UniqueNonneg(labels)) = 2
    /\ \E e \in DOMAIN labels : labels[e] >= 0 /\ new_labels[e] = -1
    /\ \E e \in DOMAIN labels : labels[e] >= 0 /\ new_labels[e] = labels[e]
    /\ \E e \in DOMAIN labels :
          new_labels[e] > Max(Range(labels)) /\ new_labels[e] = cur_max_label

\* a worker process finishes a job: a future changes while the for loop stays
\* where it is
WorkerStep == op = "split" /\ jobs' # jobs /\ cursor' = cursor /\ pc' = pc

\* C21: while split jobs run, the label array is written only by the for
\* loop when it applies a collected result (after the copy at entry); a
\* worker changes nothing but its own future, its verdict is about the member
\* set it was submitted with, and that member set stays what it was at
\* submission whatever is relabelled afterwards.
C21_OnlyOrchestratorWrites ==
    /\ [][(op = "split" /\ new_labels' # new_labels) =>
            pc = "entry" \/ SplitApplied]_vars
    /\ [][WorkerStep =>
            /\ UNCHANGED <<new_labels, cur_max_label, labels, pool, step>>
            /\ Len(jobs') = Len(jobs)
            /\ \E j \in DOMAIN jobs :
                  /\ jobs[j].state = "pending"
                  /\ jobs'[j].state \in {"done", "failed"}
                  /\ jobs'[j].result.is_split =>
                        jobs'[j].result.in_unit = jobs[j].in_unit
                  /\ \A k \in DOMAIN jobs \ {j} : jobs'[k] = jobs[k]]_vars
    /\ [][(op = "split" /\ pc = "collect") =>
            /\ Len(jobs') >= Len(jobs)
            /\ \A j \in DOMAIN jobs : jobs'[j].in_unit = jobs[j].in_unit]_vars

\* C21 witness: a job that was submitted at the start of the first step has
\* its verdict ready while the label array has been relabelled since
C21_Witness ==
    /\ op = "split" /\ pc = "collect" /\ step = 1
    /\ new_labels # labels
    /\ \E j \in cursor..Len(jobs) :
          jobs[j].state = "done" /\ jobs[j].result.is_split

\* C22: within one split test the results are applied in the order the jobs
\* were submitted: the jobs taken so far are exactly those before `cursor`,
\* the loop takes the job at `cursor`, and the jobs a recursive split submits
\* go behind every job of the list, so each job already waiting keeps its
\* place ahead of them.
C22_AppliedInSubmissionOrder ==
    /\ []((op = "split" /\ pc = "collect") =>
            \A j \in DOMAIN jobs : jobs[j].state = "collected" <=> j < cursor)
    /\ [][CollectStep =>
            /\ jobs[cursor].state = "done"
            /\ jobs'[cursor] = Consumed(jobs[cursor])
            /\ Len(jobs') >= Len(jobs)
            /\ \A k \in DOMAIN jobs \ {cursor} : jobs'[k] = jobs[k]
            /\ \A k \in (Len(jobs) + 1)..Len(jobs') : jobs'[k].state = "pending"]_vars

\* C22 witness: in the recursive step, behind two jobs submitted at the start,
\* a job submitted by a split has been taken
C22_Witness ==
    /\ op = "split" /\ pc = "collect" /\ recursive_steps[step]
    /\ nlabels_cur >= 2
    /\ \E j \in DOMAIN jobs :
          j > nlabels_cur /\ j < cursor /\ jobs[j].state = "collected"

\* C23: when a split is applied in a step whose recursive flag is set, the
\* jobs added to the list are one pending job per non-negative id the job's
\* members carry after the relabelling (the kept id and each new id), each on
\* the members that id has in the relabelled array, and none for -1; in a
\* step whose flag is clear, and when a job did not split, the list does not
\* grow.
C23_RecursiveResubmission ==
    /\ [][SplitApplied =>
            LET iu == jobs[cursor].result.in_unit
                ids == {new_labels'[iu[p]] : p \in DOMAIN iu} \ {-1}
                added == (Len(jobs) + 1)..Len(jobs')
            IN  IF recursive_steps[step]
                THEN /\ Cardinality(added) = Cardinality(ids)
                     /\ \A i \in ids : \E k \in added :
                           jobs'[k] = Submit(Flatnonzero(new_labels', i))
                     /\ \A k \in added : jobs'[k].in_unit # <<>> /\
                           \A p \in DOMAIN jobs'[k].in_unit :
                               new_labels'[jobs'[k].in_unit[p]] >= 0
                ELSE added = {}]_vars
    /\ [][(op = "split" /\ pc = "collect" /\ ~SplitApplied) =>
            Len(jobs') = Len(jobs)]_vars

\* C23 witness: in a recursive step a split that triaged a member has been
\* applied and its children submitted behind the initial jobs
C23_Witness ==
    /\ op = "split" /\ pc = "collect" /\ recursive_steps[step]
    /\ Len(jobs) > nlabels_cur
    /\ \E e \in DOMAIN labels : labels[e] >= 0 /\ new_labels[e] = -1
    /\ \E j \in DOMAIN jobs : j > nlabels_cur /\ jobs[j].state = "pending"

\* the jobs of a split step are submitted
SubmitStep == op = "split" /\ pc = "step_start" /\ pc' = "collect"

\* C24: the split tests run one after the other in the configured order: the
\* step index moves by one at a time and only when every job of the list,
\* those submitted by recursion included, has been taken; the jobs of a test
\* are submitted with every job of the test before taken, and they are one
\* job per distinct non-negative id of the label array the test before left,
\* on that id's members.
C24_StepsInSequence ==
    /\ [][(op = "split" /\ step' # step) =>
            /\ step' = step + 1
            /\ step' \in DOMAIN split_steps
            /\ step > 0 => cursor > Len(jobs)
            /\ \A j \in DOMAIN jobs : jobs[j].state = "collected"
            /\ UNCHANGED new_labels]_vars
    /\ [][SubmitStep =>
            /\ \A j \in DOMAIN jobs : jobs[j].state = "collected"
            /\ UNCHANGED <<new_labels, step>>
            /\ cursor' = 1
            /\ Len(jobs') = Cardinality(UniqueNonneg(new_labels))
            /\ \A i \in UniqueNonneg(new_labels) : \E k \in DOMAIN jobs' :
                  jobs'[k] = Submit(Flatnonzero(new_labels, i))]_vars
    /\ []((op = "split" /\ pc = "step_start") =>
            \A j \in DOMAIN jobs : jobs[j].state = "collected")

\* C24 witness: the second test has just been given its jobs, three of them,
\* after a recursive first test split a cluster
C24_Witness ==
    /\ op = "split" /\ pc = "collect" /\ step = 2 /\ cursor = 1
    /\ recursive_steps[1]
    /\ Len(jobs) = 3
    /\ \A j \in DOMAIN jobs : jobs[j].state = "pending"

\* C25: while the jobs of a test are taken, cur_max_label is the largest id
\* of the label array, so it is when any job's result is applied; every
\* applied split makes it strictly larger, and no step of a test makes it
\* smaller.
C25_RunningMaxIsMax ==
    /\ []((op = "split" /\ pc = "collect") =>
            cur_max_label = Max(Range(new_labels)))
    /\ [][SplitApplied =>
            /\ cur_max_label' > cur_max_label
            /\ cur_max_label' = Max(Range(new_labels'))]_vars
    /\ [][(op = "split" /\ pc = "collect") =>
            cur_max_label' >= cur_max_label]_vars

\* C25 witness: splits applied in the first test made two more clusters and
\* the running maximum is two above the largest id passed in
C25_Witness ==
    /\ op = "split" /\ pc = "collect" /\ step = 1
    /\ cur_max_label >= Max(Range(labels)) + 2
    /\ Cardinality(UniqueNonneg(new_labels)) = Cardinality(UniqueNonneg(labels)) + 2

\* the for loop takes the result of a job that did not split its unit
NoSplitTaken ==
    /\ CollectStep
    /\ jobs[cursor].state = "done"
    /\ ~jobs[cursor].result.is_split

\* C26: when a job reports is_split False the loop applies nothing: the label
\* array and cur_max_label are unchanged by taking it, whatever the verdict
\* carries, and no job is submitted.
C26_NoSplitNoEffect ==
    [][NoSplitTaken =>
        /\ UNCHANGED <<new_labels, cur_max_label, nlabels_cur, step, pool>>
        /\ Len(jobs') = Len(jobs)
        /\ \A k \in DOMAIN jobs \ {cursor} : jobs'[k] = jobs[k]
        /\ pc' = "collect"]_vars

\* C26 witness: both jobs of the first test have been taken and neither
\* split, the array being as it was passed in
C26_Witness ==
    /\ op = "split" /\ pc = "collect" /\ step = 1
    /\ Len(jobs) = 2 /\ cursor = 3
    /\ new_labels = labels
    /\ cur_max_label = Max(Range(labels))

\* snrs of line 639, squared: the score of id u from the templates and the
\* member counts passed in
EntryQuality(u) == SnrSq(templates, labels, u)

\* peak-to-peak amplitude x sqrt(member count) of id u as the cluster is now,
\* squared: its template of templates_dict and its members in new_labels
Quality(u) == templates_dict[u] * templates_dict[u] * OrigCount(new_labels, u)

\* the merge loop is running
MergeLooping == op = "merge" /\ pc \in {"while", "propose", "candidates"}

\* the id being processed, when there is one
Popped == IF pc \in {"propose", "candidates"} THEN {label} ELSE {}

\* C27 as stated: the worklist is in ascending order of the clusters' quality
\* (peak-to-peak amplitude x sqrt(member count)) after every pop, removal and
\* push-back, and the id popped has the highest quality of the ids remaining.
C27_WorklistByQuality ==
    [](MergeLooping =>
        /\ \A a, b \in DOMAIN labels_to_process :
              a < b => Quality(labels_to_process[a]) <= Quality(labels_to_process[b])
        /\ \A u \in Popped : \A a \in DOMAIN labels_to_process :
              Quality(labels_to_process[a]) <= Quality(u))

\* C27 as amended: the worklist is in ascending order of the scores computed
\* once at entry from the templates and member counts passed in, after every
\* pop, removal and push-back; the id popped is the last of the worklist and
\* has the highest such score of the ids remaining.  A pushed-back id keeps
\* its entry score.
C27_WorklistByEntryQuality ==
    /\ [](MergeLooping =>
           /\ \A a, b \in DOMAIN labels_to_process :
                 a < b => EntryQuality(labels_to_process[a])
                              <= EntryQuality(labels_to_process[b])
           /\ \A u \in Popped : \A a \in DOMAIN labels_to_process :
                 EntryQuality(labels_to_process[a]) <= EntryQuality(u))
    /\ [][(op = "merge" /\ pc = "while" /\ pc' = "propose") =>
            /\ label' = labels_to_process[Len(labels_to_process)]
            /\ labels_to_process' =
                  SubSeq(labels_to_process, 1, Len(labels_to_process) - 1)]_vars

\* C27 witness: a label was pushed back behind an id whose cluster now has
\* the higher quality
C27_Witness ==
    /\ op = "merge" /\ pc = "while" /\ recursive
    /\ new_labels # labels
    /\ Len(labels_to_process) = 2
    /\ Quality(labels_to_process[2]) < Quality(labels_to_process[1])

\* C28: on an accepted merge the timestamps of the candidate's members, and
\* of no other event, are changed, each by +shift; the members of the
\* absorbing cluster, of other clusters and the events labelled -1 keep
\* theirs.  Timestamps change at no other step of the loop.
C28_OnlyCandidateShifted ==
    /\ [][CommitStep =>
            \A e \in DOMAIN aligned_times :
                aligned_times'[e] =
                    IF new_labels[e] = proposals[cand]
                    THEN aligned_times[e] + shifts[cand]
                    ELSE aligned_times[e]]_vars
    /\ [][(MergeLooping /\ aligned_times' # aligned_times) => CommitStep]_vars
    /\ [][(op = "merge" /\ pc = "entry" /\ pc' = "while") =>
            aligned_times' = spike_times]_vars

\* C28 witness: a merge with a nonzero shift was committed while a third
\* cluster and an event labelled -1 existed; the absorbed events have moved
\* and the others have not
C28_Witness ==
    /\ op = "merge" /\ pc = "while"
    /\ \E e \in DOMAIN labels :
          new_labels[e] # labels[e] /\ aligned_times[e] # spike_times[e]
    /\ \E e \in DOMAIN labels : labels[e] = -1 /\ aligned_times[e] = spike_times[e]
    /\ Cardinality(UniqueNonneg(new_labels)) = 2
    /\ \A e \in DOMAIN labels :
          new_labels[e] = labels[e] => aligned_times[e] = spike_times[e]

\* the label that absorbed a candidate is back in the worklist
PushedBack == op = "merge" /\ pc = "while" /\ label \in Range(labels_to_process)

\* C29: with recursion enabled an accepted merge puts the absorbing label at
\* the end of the worklist, where the candidate is no longer, with its
\* template recomputed and the candidate's deleted; the loop goes on and the
\* next step pops that same label for a new proposal against the template
\* dictionary as the merge left it; an iteration that accepts no candidate
\* for it leaves it out of the worklist.
C29_AbsorberReprocessed ==
    /\ [][(CommitStep /\ recursive) =>
            /\ Len(labels_to_process') = Len(labels_to_process)
            /\ labels_to_process'[Len(labels_to_process')] = label
            /\ proposals[cand] \notin Range(labels_to_process')
            /\ label' = label
            /\ DOMAIN templates_dict' = DOMAIN templates_dict \ {proposals[cand]}]_vars
    /\ [](PushedBack =>
            /\ recursive
            /\ Len(labels_to_process) >= 2
            /\ labels_to_process[Len(labels_to_process)] = label)
    /\ [][PushedBack =>
            /\ pc' = "propose"
            /\ label' = label
            /\ UNCHANGED <<templates_dict, new_labels>>]_vars
    /\ [][ExhaustStep => ~PushedBack']_vars
    /\ [][(CommitStep /\ ~recursive) => ~PushedBack']_vars

\* C29 witness: the label that absorbed a candidate was popped again and the
\* proposer found no candidate for it
C29_Witness ==
    /\ op = "merge" /\ pc = "candidates" /\ recursive
    /\ proposals = <<>>
    /\ OrigCount(new_labels, label) > OrigCount(labels, label)

\* C30: on an accepted merge the merged cluster keeps the lower of the two
\* ids, the popped label's and the candidate's: the members of both carry it
\* afterwards, and the higher id is gone from the label array.
C30_KeepsLowerId ==
    [][CommitStep =>
        LET candidate == proposals[cand]
            lo == IF label < candidate THEN label ELSE candidate
            hi == IF label < candidate THEN candidate ELSE label
        IN  /\ \A e \in DOMAIN new_labels :
                  new_labels[e] \in {label, candidate} => new_labels'[e] = lo
            /\ hi \notin Range(new_labels')]_vars

\* the working copy of merge_clusters exists
MergeCopied == op = "merge" /\ pc \in {"while", "propose", "candidates", "returned"}

\* C31: merging only coarsens the partition and is not undone: two events
\* that share a non-negative label at some point of merge_clusters share one
\* after every later step and in the output; every commit leaves one live
\* cluster fewer; every id of the working array and of the output is an id
\* of the input.
C31_MergeOnlyCoarsens ==
    /\ [][MergeCopied =>
            \A e1, e2 \in DOMAIN new_labels :
                (new_labels[e1] >= 0 /\ new_labels[e1] = new_labels[e2]) =>
                    (new_labels'[e1] >= 0 /\ new_labels'[e1] = new_labels'[e2])]_vars
    /\ [][CommitStep =>
            Cardinality(UniqueNonneg(new_labels')) =
                Cardinality(UniqueNonneg(new_labels)) - 1]_vars
    /\ [](MergeCopied => UniqueNonneg(new_labels) \subseteq UniqueNonneg(labels))
    /\ []((op = "merge" /\ pc = "returned") => ret[2] = new_labels)

\* C31 witness: a run returned after a commit, with two of three clusters
\* left
C31_Witness ==
    /\ op = "merge" /\ pc = "returned"
    /\ Cardinality(UniqueNonneg(labels)) = 3
    /\ Cardinality(UniqueNonneg(ret[2])) = 2

\* the cluster with id u has absorbed a candidate
Absorbed(u) == OrigCount(new_labels, u) > OrigCount(labels, u)

\* the input clusters whose events carry id u now
InputClustersOf(u) ==
    {labels[e] : e \in {k \in DOMAIN new_labels : new_labels[k] = u}}

\* C32: with recursive False a commit leaves neither the label nor the
\* candidate in the worklist; a cluster that has absorbed a candidate is from
\* then on not in the worklist, not the popped label and not a candidate; so
\* every cluster, in the working array and in the output, is the union of at
\* most two input clusters.
C32_NonRecursiveAtMostTwo ==
    /\ [][(CommitStep /\ ~recursive) =>
            /\ label \notin Range(labels_to_process')
            /\ proposals[cand] \notin Range(labels_to_process')]_vars
    /\ []((MergeLooping /\ ~recursive) =>
            \A u \in UniqueNonneg(new_labels) :
                Absorbed(u) => /\ u \notin Range(labels_to_process)
                               /\ u \notin Range(proposals)
                               /\ u \notin Popped)
    /\ []((MergeCopied /\ ~recursive) =>
            \A u \in UniqueNonneg(new_labels) : Cardinality(InputClustersOf(u)) <= 2)

\* C32 witness: without recursion, an iteration that follows a commit is
\* looking at its candidates
C32_Witness ==
    /\ op = "merge" /\ pc = "candidates" /\ ~recursive
    /\ \E u \in UniqueNonneg(new_labels) : Absorbed(u)

\* the events of a job's member set
MembersOf(job) == Range(job.in_unit)

\* C33: when the for loop takes a job's result, the job's member set is the
\* set of events that carry the job's cluster id in the label array at that
\* moment, and a verdict that splits is about that member set; the member
\* sets of the jobs not yet taken are pairwise disjoint; so a result that is
\* applied writes only to events no other waiting job holds.
C33_JobOwnsItsMembers ==
    /\ [][(CollectStep /\ jobs[cursor].state = "done") =>
            LET iu == jobs[cursor].in_unit
            IN  /\ iu # <<>>
                /\ new_labels[iu[1]] >= 0
                /\ iu = Flatnonzero(new_labels, new_labels[iu[1]])
                /\ jobs[cursor].result.is_split =>
                      jobs[cursor].result.in_unit = iu]_vars
    /\ []((op = "split" /\ pc = "collect") =>
            \A j, k \in cursor..Len(jobs) :
                j # k => MembersOf(jobs[j]) \cap MembersOf(jobs[k]) = {})
    /\ [][SplitApplied =>
            \A k \in (cursor + 1)..Len(jobs) : \A e \in MembersOf(jobs[k]) :
                new_labels'[e] = new_labels[e]]_vars

\* C33 witness: in a recursive step a job submitted by an applied split has
\* a verdict that splits again, while another job waits behind it
C33_Witness ==
    /\ op = "split" /\ pc = "collect" /\ recursive_steps[step]
    /\ cursor > nlabels_cur /\ cursor < Len(jobs)
    /\ jobs[cursor].state = "done" /\ jobs[cursor].result.is_split

\* C34: with the recursive flag set the worklist of a split test is drained
\* after finitely many jobs and split_clusters comes to its end (it returns,
\* unless a job raised): every job a split submits has fewer members than the
\* job that split, every positive verdict of the tests having members in two
\* non-negative sub-labels or more, and the list of a test never holds more
\* than 2 * NEvents jobs.
C34_RecursionTerminates ==
    /\ <>(op = "split" /\ pc \in {"returned", "raised"})
    /\ [][SplitApplied =>
            /\ Cardinality({u \in Range(jobs[cursor].result.unit_new_labels) : u >= 0}) >= 2
            /\ \A k \in (Len(jobs) + 1)..Len(jobs') :
                  Len(jobs'[k].in_unit) < Len(jobs[cursor].in_unit)]_vars
    /\ []((op = "split" /\ pc = "collect") => Len(jobs) < 2 * NEvents)
    /\ []((op = "split" /\ pc = "raised") =>
            err \in EntryErrors \cup {"job_failed", "ValueError_empty_max"})

\* C34 witness: the recursive test started with one job, a job submitted by
\* its split has split again, and the list of five jobs is drained
C34_Witness ==
    /\ op = "split" /\ pc = "collect" /\ recursive_steps[step]
    /\ nlabels_cur = 1
    /\ Len(jobs) = 5 /\ cursor > Len(jobs)

\* C35: at the start of every iteration of the merge loop the worklist holds
\* no id twice, every id of the worklist has a template in templates_dict and
\* a member in the label array, and the keys of templates_dict are exactly
\* the non-negative ids of the label array; hence the candidate being tested
\* is in the worklist and it and the label have a template, so that
\* remove(candidate) and the template lookups do not fail.
C35_WorklistWellFormed ==
    /\ []((op = "merge" /\ pc = "while") =>
            /\ \A a, b \in DOMAIN labels_to_process :
                  a # b => labels_to_process[a] # labels_to_process[b]
            /\ Range(labels_to_process) \subseteq DOMAIN templates_dict
            /\ \A u \in Range(labels_to_process) : OrigCount(new_labels, u) >= 1
            /\ DOMAIN templates_dict = UniqueNonneg(new_labels))
    /\ []((op = "merge" /\ pc \in {"propose", "candidates"}) =>
            /\ label \in DOMAIN templates_dict
            /\ label \notin Range(labels_to_process)
            /\ Range(labels_to_process) \subseteq DOMAIN templates_dict
            /\ Range(proposals) \subseteq Range(labels_to_process))

\* C35 witness: an iteration starts after a recursive commit, with the
\* absorbing label back in the worklist
C35_Witness ==
    /\ PushedBack
    /\ Len(labels_to_process) = 2
    /\ Cardinality(DOMAIN templates_dict) = 2
    /\ \E e \in DOMAIN labels : labels[e] = -1

\* the event has been absorbed into another cluster by a commit
Moved(e) == new_labels[e] # labels[e]

\* C36: within one merge_clusters run an event's timestamp is shifted at most
\* once.  A cluster that has absorbed another is never a proposed candidate;
\* the candidate being tested has the member set it had in the input, with
\* the input's timestamps; a commit moves the candidate's events from their
\* input timestamp to that plus the commit's shift and an event that has been
\* absorbed is not shifted again; so a returned timestamp is the input's, or
\* for an absorbed event the input's plus one shift.
C36_ShiftedAtMostOnce ==
    /\ [](MergeLooping =>
            \A u \in Range(proposals) : ~Absorbed(u))
    /\ []((op = "merge" /\ pc = "candidates" /\ cand <= Len(proposals)) =>
            /\ Members(new_labels, proposals[cand]) = Members(labels, proposals[cand])
            /\ Members(new_labels, proposals[cand]) # {}
            /\ \A e \in Members(new_labels, proposals[cand]) :
                  aligned_times[e] = spike_times[e])
    /\ [][CommitStep =>
            \A e \in DOMAIN aligned_times :
                /\ Moved(e) => aligned_times'[e] = aligned_times[e]
                /\ aligned_times'[e] # aligned_times[e] =>
                      /\ ~Moved(e)
                      /\ aligned_times'[e] = spike_times[e] + shifts[cand]]_vars
    /\ [](MergeCopied =>
            \A e \in DOMAIN aligned_times :
                \/ aligned_times[e] = spike_times[e]
                \/ /\ Moved(e)
                   /\ \E sh \in ShiftValues : aligned_times[e] = spike_times[e] + sh)
    /\ []((op = "merge" /\ pc = "returned") => ret[1] = aligned_times)

\* C36 witness: a recursive run has committed twice, with two different
\* nonzero shifts: two events have been absorbed by the same cluster, each
\* shifted once, by the shift of its own merge
C36_Witness ==
    /\ op = "merge" /\ pc = "while" /\ recursive
    /\ \E e1, e2 \in DOMAIN labels :
          /\ e1 # e2 /\ Moved(e1) /\ Moved(e2)
          /\ new_labels[e1] = new_labels[e2]
          /\ aligned_times[e1] = spike_times[e1] + MaxShift
          /\ aligned_times[e2] = spike_times[e2] - MaxShift

\* the events labelled -1 in the input
TriagedInput == {e \in DOMAIN labels : labels[e] = -1}

\* split_clusters or merge_clusters has made its working copy and has not raised
Working ==
    \/ op = "split" /\ pc \notin {"entry", "raised"}
    \/ MergeCopied

\* C37: an event labelled -1 in the input is -1 in the working array at every
\* step of split_clusters and of merge_clusters and in what they return; no
\* split job has such an event among its members and no merge commit
\* relabels one; merge_clusters never changes its timestamp and returns it
\* as it was.
C37_TriagedStaysTriaged ==
    /\ [](Working => \A e \in TriagedInput : new_labels[e] = -1)
    /\ []((op = "split" /\ pc = "returned") => \A e \in TriagedInput : ret[e] = -1)
    /\ []((op = "merge" /\ pc = "returned") =>
            \A e \in TriagedInput : ret[2][e] = -1 /\ ret[1][e] = spike_times[e])
    /\ []((op = "split" /\ Working) =>
            \A j \in DOMAIN jobs : MembersOf(jobs[j]) \cap TriagedInput = {})
    /\ [](MergeCopied => \A e \in TriagedInput : aligned_times[e] = spike_times[e])
    /\ [][Working =>
            \A e \in DOMAIN new_labels :
                new_labels[e] = -1 => new_labels'[e] = -1]_vars

\* C37 witness: split_clusters returns after a split that made a new cluster
\* and triaged an event, the input having an event labelled -1
C37_Witness ==
    /\ op = "split" /\ pc = "returned"
    /\ TriagedInput # {}
    /\ \E e \in DOMAIN labels : labels[e] >= 0 /\ ret[e] = -1
    /\ \E e \in DOMAIN labels : labels[e] >= 0 /\ ret[e] > labels[e]

\* the for loop of full_deconv_with_update replaces spike_train
UpdateStep == op = "deconv" /\ pc = "update" /\ pc' = "chunk"

\* how many rows of the spike train are the spike r
CountOf(rows, r) == Cardinality({k \in DOMAIN rows : rows[k] = r})

\* the units that have a prior spike in the window and no deconvolved spike
NotDeconvolved(start, end, spt_before, spt_after) ==
    {u \in 0..MaxDeconvUnit :
        /\ \E k \in DOMAIN spt_before :
              InWindow(spt_before[k], start, end) /\ spt_before[k].unit = u
        /\ \A k \in DOMAIN spt_after : spt_after[k].unit # u}

\* C38: the spike train update_spike_train_with_deconv_res returns holds
\* every prior spike outside the window, every prior spike inside the window
\* of a unit that has no spike in the window's deconvolution result, every
\* deconvolved spike, each as often as it was there, and nothing else (so the
\* prior spikes inside the window of the other units are gone); its rows are
\* in ascending order of time.
C38_KeepsWhereNothingDeconvolved ==
    [][UpdateStep =>
        LET end == EndSec(start_sec)
            kept == NotDeconvolved(start_sec, end, spike_train, spt_chunk)
            all == Range(spike_train) \cup Range(spt_chunk) \cup Range(spike_train')
        IN  /\ \A r \in all :
                  CountOf(spike_train', r) =
                      (IF ~InWindow(r, start_sec, end) \/ r.unit \in kept
                       THEN CountOf(spike_train, r) ELSE 0)
                      + CountOf(spt_chunk, r)
            /\ \A a, b \in DOMAIN spike_train' :
                  a < b => spike_train'[a].t <= spike_train'[b].t]_vars

\* C38 witness: after the first window the spike train holds a prior spike
\* of that window whose unit was not deconvolved, a deconvolved spike of
\* another unit, and a prior spike of the second window; a prior spike is
\* gone
C38_Witness ==
    /\ op = "deconv" /\ pc = "chunk" /\ start_sec = 1
    /\ Len(spt_chunk) = 1
    /\ Len(spike_train) = 3
    /\ \E a, b, c \in DOMAIN spike_train :
          /\ spike_train[a].x = 0 /\ spike_train[a].t < Pfs
          /\ spike_train[b].x = 1 /\ spike_train[b].unit # spike_train[a].unit
          /\ spike_train[c].x = 0 /\ spike_train[c].t >= Pfs

\* shift_deconv calls shift_superres_templates
ShiftStep == op = "shift_deconv" /\ pc = "shifts" /\ shift_k' = shift_k + 1

\* the bin id table as superres_spike_train built it: a unit's bins ascending
AsBuilt(bin_id, orig) ==
    [k \in DOMAIN orig |->
        SortedSeq({bin_id[j] : j \in {i \in DOMAIN orig : orig[i] = orig[k]}})[PlaceIn(orig, k)]]

\* C39: a call of shift_superres_templates leaves the superres-label-to-bin-id
\* table as it was passed, and the templates shift_deconv computes for a
\* displacement value are those a call on the table as built returns,
\* whatever values were processed before.
C39_ShiftLeavesArguments ==
    /\ [][ShiftStep => superres_label_to_bin_id' = superres_label_to_bin_id]_vars
    /\ [](op = "shift_deconv" =>
            \A k \in DOMAIN shifted_templates :
                shifted_templates[k] =
                    shift_superres_templates(
                        SuperresTemplates(superres_label_to_orig_label),
                        AsBuilt(superres_label_to_bin_id, superres_label_to_orig_label),
                        superres_label_to_orig_label, unique_shifts[k], pitch).templates)

====
